---- MODULE Spec2Model ----
(***************************************************************************)
(* A model of the TOON codec of toon-go: the normalizer, the encoder, the  *)
(* line preprocessor and the parser, as pure operators over text, driven   *)
(* by a small state machine that marshals a host value, decodes the        *)
(* document, marshals the decoded value again and decodes that.            *)
(*                                                                         *)
(* Text is a sequence of one-character strings (Go strings are indexed;    *)
(* TLA+ strings are not).  The characters that occur are ASCII; "\f"       *)
(* (U+000C) stands for the control characters the encoder rejects.         *)
(* Indexes returned by the index operators are 0-based as in Go, with -1   *)
(* for "not found".                                                        *)
(***************************************************************************)
EXTENDS Integers, Sequences, FiniteSets, TLC

(***************************************************************************)
(* Characters                                                              *)
(***************************************************************************)
Printable ==
  << " ", "!", "\"", "#", "$", "%", "&", "'", "(", ")", "*", "+", ",", "-",
     ".", "/", "0", "1", "2", "3", "4", "5", "6", "7", "8", "9", ":", ";",
     "<", "=", ">", "?", "@", "A", "B", "C", "D", "E", "F", "G", "H", "I",
     "J", "K", "L", "M", "N", "O", "P", "Q", "R", "S", "T", "U", "V", "W",
     "X", "Y", "Z", "[", "\\", "]", "^", "_", "a", "b", "c", "d", "e",
     "f", "g", "h", "i", "j", "k", "l", "m", "n", "o", "p", "q", "r", "s",
     "t", "u", "v", "w", "x", "y", "z", "{", "|", "}", "~" >>

Chars == {Printable[i] : i \in 1..Len(Printable)} \cup {"\t", "\n", "\f", "\r"}

\* The code point of a character (a Go rune, or a byte: the text is ASCII).
RuneTable ==
  [c \in Chars |->
     CASE c = "\t" -> 9
       [] c = "\n" -> 10
       [] c = "\f" -> 12
       [] c = "\r" -> 13
       [] OTHER ->
            LET i == CHOOSE j \in 1..Len(Printable) : Printable[j] = c
            IN  IF i <= 64 THEN 31 + i ELSE 32 + i]

Rune(c) == RuneTable[c]

DigitChars == <<"0", "1", "2", "3", "4", "5", "6", "7", "8", "9">>

isDigit(b) == Rune(b) >= 48 /\ Rune(b) <= 57

\* unicode.IsLetter / unicode.IsDigit / unicode.IsSpace on the ASCII range.
IsLetter(r) == (Rune(r) >= 65 /\ Rune(r) <= 90) \/ (Rune(r) >= 97 /\ Rune(r) <= 122)
IsDigit(r) == isDigit(r)
IsSpace(r) == r \in {" ", "\t", "\n", "\f", "\r"}

(***************************************************************************)
(* Loops.  Loop(Body, lo, hi, st) is the state after                       *)
(*   for i := lo; i <= hi; i++ { st = Body(st, i) }                        *)
(* computed by halving the range, which bounds the depth of evaluation by  *)
(* the logarithm of the number of iterations.  A loop that returns early   *)
(* records the return in its state and ignores the remaining iterations.   *)
(***************************************************************************)
RECURSIVE Loop(_, _, _, _)
Loop(Body(_, _), lo, hi, st) ==
  IF lo > hi THEN st
  ELSE IF lo = hi THEN Body(st, lo)
  ELSE LET left == Loop(Body, lo, (lo + hi) \div 2, st)
       IN  IF left = left THEN Loop(Body, ((lo + hi) \div 2) + 1, hi, left) ELSE left

(***************************************************************************)
(* Function calls.  Call(name, args) is the call of the function `name'    *)
(* of the program with the arguments args, in the order of its             *)
(* parameters.  The functions are defined below, each under its own name;  *)
(* Call itself is defined after the last of them.                          *)
(***************************************************************************)
RECURSIVE Call(_, _)

Min(set) == CHOOSE x \in set : \A y \in set : x <= y
Max(set) == CHOOSE x \in set : \A y \in set : x >= y

(***************************************************************************)
(* package strings                                                         *)
(***************************************************************************)
Slice(s, from, to) == SubSeq(s, from + 1, to)      \* Go's s[from:to]
SliceFrom(s, from) == SubSeq(s, from + 1, Len(s))  \* Go's s[from:]

TrimSpace(s) ==
  LET idx == {i \in 1..Len(s) : ~IsSpace(s[i])}
  IN  IF idx = {} THEN <<>> ELSE SubSeq(s, Min(idx), Max(idx))

HasPrefix(s, p) == Len(s) >= Len(p) /\ SubSeq(s, 1, Len(p)) = p
HasSuffix(s, p) == Len(s) >= Len(p) /\ SubSeq(s, Len(s) - Len(p) + 1, Len(s)) = p
ContainsRune(s, r) == \E i \in 1..Len(s) : s[i] = r
ContainsAny(s, set) == \E i \in 1..Len(s) : s[i] \in set

\* strings.Repeat(" ", n)
Spaces(n) == Loop(LAMBDA st, i : Append(st, " "), 1, n, <<>>)

\* strings.Join(elems, sep)
Join(elems, sep) ==
  Loop(LAMBDA st, i : IF i = 1 THEN elems[i] ELSE st \o sep \o elems[i], 1, Len(elems), <<>>)

\* strings.Split(s, sep) for a one-character separator.
Split(s, sep) ==
  LET st == Loop(LAMBDA acc, i :
                   IF s[i] = sep
                   THEN [done |-> Append(acc.done, acc.cur), cur |-> <<>>]
                   ELSE [done |-> acc.done, cur |-> Append(acc.cur, s[i])],
                 1, Len(s), [done |-> <<>>, cur |-> <<>>])
  IN  Append(st.done, st.cur)

\* strings.ReplaceAll(input, "\r\n", "\n")
ReplaceCRLF(s) ==
  Loop(LAMBDA st, i :
         IF s[i] = "\r" /\ i < Len(s) /\ s[i + 1] = "\n" THEN st ELSE Append(st, s[i]),
       1, Len(s), <<>>)

\* Go's a < b on strings: bytewise lexicographic.
StringLess(a, b) ==
  \E i \in 1..Len(b) :
    /\ i - 1 <= Len(a)
    /\ \A j \in 1..(i - 1) : a[j] = b[j]
    /\ i = Len(a) + 1 \/ Rune(a[i]) < Rune(b[i])

\* strconv.Itoa for the small non-negative lengths of array headers.
RECURSIVE Itoa(_)
Itoa(n) == IF n < 10 THEN <<DigitChars[n + 1]>> ELSE Itoa(n \div 10) \o <<DigitChars[(n % 10) + 1]>>

DigitValue(c) == Rune(c) - 48

At(s, i) == s[i + 1]   \* Go's s[i]

\* A Go (value, error) pair; err = "nil" is the nil error.
Ok(v) == [err |-> "nil", val |-> v]
Fail(msg) == [err |-> msg, val |-> <<>>]
IsOk(r) == r.err = "nil"

(***************************************************************************)
(* package format: quoting and key rules                                   *)
(***************************************************************************)
\* ValidateCharacters: nil unless s holds a control character other than
\* HTAB, LF, CR.
ValidateCharacters(s) ==
  IF \E i \in 1..Len(s) : Rune(s[i]) < 32 /\ s[i] # "\n" /\ s[i] # "\r" /\ s[i] # "\t"
  THEN "toon: unsupported control character in string"
  ELSE "nil"

\* for i < len(s) && isDigit(s[i]) { i++ }: the value of i after the loop.
SkipDigits(s, i) ==
  LET stop == {j \in i..(Len(s) - 1) : ~isDigit(At(s, j))}
  IN  IF stop # {} THEN Min(stop) ELSE IF i < Len(s) THEN Len(s) ELSE i

LooksNumeric(s) ==
  IF Len(s) = 0 THEN FALSE
  ELSE
    LET i0 == IF At(s, 0) = "-" THEN 1 ELSE 0
        i1 == SkipDigits(s, i0)
        hasDot == i1 < Len(s) /\ At(s, i1) = "."
        i2 == IF hasDot THEN SkipDigits(s, i1 + 1) ELSE i1
        hasExp == i2 < Len(s) /\ (At(s, i2) = "e" \/ At(s, i2) = "E")
        i3 == IF i2 + 1 < Len(s) /\ (At(s, i2 + 1) = "+" \/ At(s, i2 + 1) = "-")
              THEN i2 + 2 ELSE i2 + 1
        i4 == IF hasExp THEN SkipDigits(s, i3) ELSE i2
    IN  IF i0 = Len(s) THEN FALSE
        ELSE IF i1 = i0 THEN FALSE
        ELSE IF hasDot /\ (i1 + 1 = Len(s) \/ ~isDigit(At(s, i1 + 1))) THEN FALSE
        ELSE IF hasExp /\ (i3 = Len(s) \/ ~isDigit(At(s, i3))) THEN FALSE
        ELSE i4 = Len(s)

HasLeadingZeroDecimal(s) ==
  IF Len(s) < 2 THEN FALSE
  ELSE IF At(s, 0) # "0" THEN FALSE
  ELSE Rune(At(s, 1)) >= 48 /\ Rune(At(s, 1)) <= 57

\* A faulty NeedsQuoting, which does not look for the active delimiter.
NeedsQuotingOutsideArrays(s, ctx) ==
  IF Len(s) = 0 THEN TRUE
  ELSE IF TrimSpace(s) # s THEN TRUE
  ELSE IF s \in {<<"t", "r", "u", "e">>, <<"f", "a", "l", "s", "e">>, <<"n", "u", "l", "l">>} THEN TRUE
  ELSE IF Call("LooksNumeric", <<s>>) THEN TRUE
  ELSE IF Call("HasLeadingZeroDecimal", <<s>>) THEN TRUE
  ELSE IF ContainsAny(s, {":", "\\", "\"", "[", "]", "{", "}"}) THEN TRUE
  ELSE IF ContainsRune(s, "\n") \/ ContainsRune(s, "\r") \/ ContainsRune(s, "\t") THEN TRUE
  ELSE IF HasPrefix(s, <<"-">>) THEN TRUE
  ELSE IF ~ctx.InArray /\ ContainsRune(s, ctx.Document) THEN TRUE
  ELSE FALSE

\* ctx is a format.Context: [Active, Document, InArray].
NeedsQuoting(s, ctx) ==
  IF Len(s) = 0 THEN TRUE
  ELSE IF TrimSpace(s) # s THEN TRUE
  ELSE IF s \in {<<"t", "r", "u", "e">>, <<"f", "a", "l", "s", "e">>, <<"n", "u", "l", "l">>} THEN TRUE
  ELSE IF Call("LooksNumeric", <<s>>) THEN TRUE
  ELSE IF Call("HasLeadingZeroDecimal", <<s>>) THEN TRUE
  ELSE IF ContainsAny(s, {":", "\\", "\"", "[", "]", "{", "}"}) THEN TRUE
  ELSE IF ContainsRune(s, "\n") \/ ContainsRune(s, "\r") \/ ContainsRune(s, "\t") THEN TRUE
  ELSE IF HasPrefix(s, <<"-">>) THEN TRUE
  ELSE IF ctx.InArray /\ ContainsRune(s, ctx.Active) THEN TRUE
  ELSE IF ~ctx.InArray /\ ContainsRune(s, ctx.Document) THEN TRUE
  ELSE FALSE

\* for _, r := range s { switch r { ... } }: the escaped body.
QuoteBody(s) ==
  Loop(LAMBDA b, i :
         b \o (CASE s[i] = "\\" -> <<"\\", "\\">>
                 [] s[i] = "\"" -> <<"\\", "\"">>
                 [] s[i] = "\n" -> <<"\\", "n">>
                 [] s[i] = "\r" -> <<"\\", "r">>
                 [] s[i] = "\t" -> <<"\\", "t">>
                 [] OTHER -> <<s[i]>>),
       1, Len(s), <<>>)

QuoteString(s) ==
  IF \E i \in 1..Len(s) : s[i] \notin {"\\", "\"", "\n", "\r", "\t"} /\ Rune(s[i]) < 32
  THEN Fail("toon: unsupported control character in string")
  ELSE Ok(<<"\"">> \o Call("QuoteBody", <<s>>) \o <<"\"">>)

\* A faulty FormatString, which writes every valid string without quotes.
FormatStringBare(s, ctx) ==
  IF Call("ValidateCharacters", <<s>>) # "nil" THEN Fail(Call("ValidateCharacters", <<s>>))
  ELSE Ok(s)

FormatString(s, ctx) ==
  IF Call("ValidateCharacters", <<s>>) # "nil" THEN Fail(Call("ValidateCharacters", <<s>>))
  ELSE IF Call("NeedsQuoting", <<s, ctx>>) THEN Call("QuoteString", <<s>>)
  ELSE Ok(s)

IsValidUnquotedKey(key) ==
  IF key = <<>> THEN FALSE
  ELSE /\ key[1] = "_" \/ IsLetter(key[1])
       /\ \A pos \in 2..Len(key) :
            IsLetter(key[pos]) \/ IsDigit(key[pos]) \/ key[pos] = "_" \/ key[pos] = "."

EncodeKey(key) ==
  IF key = <<>> THEN Call("QuoteString", <<key>>)
  ELSE IF Call("IsValidUnquotedKey", <<key>>) THEN Ok(key)
  ELSE Call("QuoteString", <<key>>)

(***************************************************************************)
(* package parse: unquoting and the inline tokenizer                       *)
(***************************************************************************)
\* UnquoteString: the loop over token[1 : len-1] keeps [b, escaped, err].
UnquoteStep(token, st, i) ==
  LET ch == At(token, i) IN
  IF st.err # "nil" THEN st
  ELSE IF st.escaped
  THEN CASE ch = "\\" \/ ch = "\"" -> [st EXCEPT !.b = Append(@, ch), !.escaped = FALSE]
         [] ch = "n" -> [st EXCEPT !.b = Append(@, "\n"), !.escaped = FALSE]
         [] ch = "r" -> [st EXCEPT !.b = Append(@, "\r"), !.escaped = FALSE]
         [] ch = "t" -> [st EXCEPT !.b = Append(@, "\t"), !.escaped = FALSE]
         [] OTHER -> [st EXCEPT !.err = "invalid escape sequence"]
  ELSE IF ch = "\\" THEN [st EXCEPT !.escaped = TRUE]
  ELSE [st EXCEPT !.b = Append(@, ch)]

UnquoteString(token) ==
  IF Len(token) < 2 \/ At(token, 0) # "\"" \/ At(token, Len(token) - 1) # "\""
  THEN Fail("invalid quoted string")
  ELSE LET st == Loop(LAMBDA acc, i : Call("UnquoteStep", <<token, acc, i>>), 1, Len(token) - 2,
                      [b |-> <<>>, escaped |-> FALSE, err |-> "nil"])
       IN  IF st.err # "nil" THEN Fail(st.err)
           ELSE IF st.escaped THEN Fail("unterminated escape sequence")
           ELSE Ok(st.b)

\* SplitInlineValues: the loop keeps [tokens, current, inQuotes, escaped].
SplitInlineStep(segment, delimiter, st, i) ==
  LET r == segment[i] IN
  CASE st.escaped -> [st EXCEPT !.current = Append(@, r), !.escaped = FALSE]
    [] ~st.escaped /\ r = "\\" /\ st.inQuotes ->
         [st EXCEPT !.current = Append(@, r), !.escaped = TRUE]
    [] ~st.escaped /\ ~(r = "\\" /\ st.inQuotes) /\ r = "\"" ->
         [st EXCEPT !.current = Append(@, r), !.inQuotes = ~@]
    [] ~st.escaped /\ ~(r = "\\" /\ st.inQuotes) /\ r # "\"" /\ r = delimiter /\ ~st.inQuotes ->
         [st EXCEPT !.tokens = Append(@, TrimSpace(st.current)), !.current = <<>>]
    [] OTHER -> [st EXCEPT !.current = Append(@, r)]

SplitInlineValues(segment, delimiter) ==
  IF TrimSpace(segment) = <<>> THEN Ok(<<>>)
  ELSE LET st == Loop(LAMBDA acc, i : Call("SplitInlineStep", <<segment, delimiter, acc, i>>), 1, Len(segment),
                      [tokens |-> <<>>, current |-> <<>>, inQuotes |-> FALSE, escaped |-> FALSE])
       IN  IF st.inQuotes THEN Fail("unterminated string in delimited values")
           ELSE Ok(Append(st.tokens, TrimSpace(st.current)))

(***************************************************************************)
(* Host numbers                                                            *)
(*                                                                         *)
(* A Go integer (int64, uint64, *big.Int) is [neg, limbs]: its sign and    *)
(* its magnitude in base 10000, most significant limb first, <<>> for 0.   *)
(* A float64 is [class, neg, d, dp]: class is "finite", "inf" or "nan",    *)
(* and a finite value is 0.d1d2...dn * 10^dp, where d is the shortest      *)
(* decimal digit string that identifies the double (strconv's decimal:     *)
(* no leading and no trailing zero; <<>> for zero).                        *)
(***************************************************************************)
GoInt(neg, limbs) == [neg |-> neg, limbs |-> limbs]

\* -1, 0, 1 as a < b, a = b, a > b on magnitudes.
LimbsCmp(a, b) ==
  IF Len(a) # Len(b) THEN (IF Len(a) < Len(b) THEN -1 ELSE 1)
  ELSE IF a = <<>> THEN 0
  ELSE IF a[1] # b[1] THEN (IF a[1] < b[1] THEN -1 ELSE 1)
  ELSE Call("LimbsCmp", <<Tail(a), Tail(b)>>)

\* a < b on signed integers.
IntLess(a, b) ==
  IF a.neg /\ ~b.neg THEN a.limbs # <<>> \/ b.limbs # <<>>
  ELSE IF ~a.neg /\ b.neg THEN FALSE
  ELSE IF a.neg THEN Call("LimbsCmp", <<a.limbs, b.limbs>>) = 1
  ELSE Call("LimbsCmp", <<a.limbs, b.limbs>>) = -1

Neg(a) == [neg |-> ~a.neg, limbs |-> a.limbs]

Pad4(n) == <<DigitChars[(n \div 1000) + 1], DigitChars[((n \div 100) % 10) + 1],
             DigitChars[((n \div 10) % 10) + 1], DigitChars[(n % 10) + 1]>>

PadLimbs(limbs) == IF limbs = <<>> THEN <<>> ELSE Pad4(limbs[1]) \o Call("PadLimbs", <<Tail(limbs)>>)

\* strconv.FormatUint(u, 10) and strconv.FormatInt(i, 10)
FormatUint(u) ==
  IF u.limbs = <<>> THEN <<"0">> ELSE Itoa(u.limbs[1]) \o Call("PadLimbs", <<Tail(u.limbs)>>)

FormatInt(i) ==
  IF i.neg /\ i.limbs # <<>> THEN <<"-">> \o Call("FormatUint", <<i>>) ELSE Call("FormatUint", <<i>>)

\* const maxSafeInteger = 9007199254740991
maxSafeInteger == GoInt(FALSE, <<9007, 1992, 5474, 991>>)

\* math.MaxInt64 = 9223372036854775807 and -math.MinInt64
MaxInt64 == GoInt(FALSE, <<922, 3372, 368, 5477, 5807>>)
MinInt64 == GoInt(TRUE, <<922, 3372, 368, 5477, 5808>>)

\* (*big.Int).IsInt64
IsInt64(x) == ~Call("IntLess", <<x, MinInt64>>) /\ ~Call("IntLess", <<MaxInt64, x>>)

Finite(neg, d, dp) == [class |-> "finite", neg |-> neg, d |-> d, dp |-> dp]
NaN == [class |-> "nan", neg |-> FALSE, d |-> <<>>, dp |-> 0]
Inf(neg) == [class |-> "inf", neg |-> neg, d |-> <<>>, dp |-> 0]

Zeros(n) == Loop(LAMBDA st, i : Append(st, "0"), 1, n, <<>>)

\* strconv.FormatFloat(f, 'f', -1, 64) of a finite f: the shortest digits in
\* %f form (ftoa.go, fmtF with prec = max(nd - dp, 0)).
FormatFloat(f) ==
  LET nd == Len(f.d)
      intPart == IF f.dp > 0
                 THEN SubSeq(f.d, 1, IF f.dp < nd THEN f.dp ELSE nd) \o Zeros(f.dp - nd)
                 ELSE <<"0">>
      prec == IF nd - f.dp > 0 THEN nd - f.dp ELSE 0
      frac == IF f.dp >= 0 THEN SubSeq(f.d, f.dp + 1, nd)
              ELSE Zeros(-f.dp) \o f.d
  IN  (IF f.neg THEN <<"-">> ELSE <<>>) \o intPart
      \o (IF prec > 0 THEN <<".">> \o frac ELSE <<>>)

(***************************************************************************)
(* strconv.ParseFloat(s, 64) for decimal text.  The nearest double is      *)
(* computed exactly in two ranges, which hold every number of the model:   *)
(* at most 15 significant digits (every such decimal identifies its own    *)
(* double, so the shortest digits of the result are the digits read), and  *)
(* 16-digit integers (all below 2^54; doubles are the even integers from   *)
(* 2^53 on: an odd integer is a tie and rounds to the multiple of 4).      *)
(***************************************************************************)
Lower(c) == IF Rune(c) >= 65 /\ Rune(c) <= 90 THEN Printable[Rune(c)] ELSE c
ToLower(s) == Loop(LAMBDA st, i : Append(st, Lower(s[i])), 1, Len(s), <<>>)

StripLeadingZeros(d) == IF d # <<>> /\ d[1] = "0" THEN Call("StripLeadingZeros", <<Tail(d)>>) ELSE d

StripTrailingZeros(d) ==
  IF d # <<>> /\ d[Len(d)] = "0" THEN Call("StripTrailingZeros", <<SubSeq(d, 1, Len(d) - 1)>>) ELSE d

\* The value of a short run of digits, capped as readFloat caps exponents.
Atoi(digits, acc) ==
  IF digits = <<>> THEN acc
  ELSE Call("Atoi", <<Tail(digits), IF acc < 10000 THEN acc * 10 + DigitValue(digits[1]) ELSE acc>>)

\* d + 1 and d - 1 on a digit string of fixed length (d > 0, no overflow).
DecInc(d) ==
  IF d[Len(d)] = "9" THEN Call("DecInc", <<SubSeq(d, 1, Len(d) - 1)>>) \o <<"0">>
  ELSE SubSeq(d, 1, Len(d) - 1) \o <<DigitChars[DigitValue(d[Len(d)]) + 2]>>

DecDec(d) ==
  IF d[Len(d)] = "0" THEN Call("DecDec", <<SubSeq(d, 1, Len(d) - 1)>>) \o <<"9">>
  ELSE SubSeq(d, 1, Len(d) - 1) \o <<DigitChars[DigitValue(d[Len(d)])]>>

TwoTo53 == <<"9", "0", "0", "7", "1", "9", "9", "2", "5", "4", "7", "4", "0", "9", "9", "2">>
\* 0.17976931348623157 * 10^309 is the largest finite double
MaxFloat64Digits == <<"1", "7", "9", "7", "6", "9", "3", "1", "3", "4", "8", "6", "2", "3", "1", "5", "7">>

\* Round a 16-digit integer n, 2^53 <= n < 2^54, to the nearest double.
RoundInteger16(n) ==
  LET last2 == DigitValue(n[15]) * 10 + DigitValue(n[16])
  IN  IF last2 % 2 = 0 THEN n
      ELSE IF (last2 - 1) % 4 = 0 THEN Call("DecDec", <<n>>)
      ELSE Call("DecInc", <<n>>)

\* The double nearest to 0.digits * 10^dp, digits without leading zeros.
RoundToFloat64(neg, digits, dp) ==
  LET d == Call("StripTrailingZeros", <<digits>>) IN
  IF d = <<>> THEN Ok(Finite(neg, <<>>, 0))
  ELSE IF Len(d) <= 15
  THEN IF dp > 309 \/ (dp = 309 /\ Call("StringLess", <<MaxFloat64Digits, d>>))
       THEN [err |-> "value out of range", val |-> Inf(neg)]
       ELSE IF dp < -330 THEN Ok(Finite(neg, <<>>, 0))
       ELSE Ok(Finite(neg, d, dp))
  ELSE IF Len(digits) = 16 /\ dp = 16 /\ Call("StringLess", <<digits, TwoTo53>>)
  THEN Ok(Finite(neg, d, dp))
  ELSE IF Len(digits) = 16 /\ dp = 16
  THEN Ok(Finite(neg, Call("StripTrailingZeros", <<Call("RoundInteger16", <<digits>>)>>), 16))
  ELSE Fail("outside the modelled range")

\* readFloat: sign, digits with at most one '.', optional exponent.
ParseDecimal(s) ==
  LET neg == s # <<>> /\ s[1] = "-"
      i0 == IF s # <<>> /\ (s[1] = "+" \/ s[1] = "-") THEN 1 ELSE 0
      i1 == SkipDigits(s, i0)
      hasDot == i1 < Len(s) /\ At(s, i1) = "."
      i2 == IF hasDot THEN SkipDigits(s, i1 + 1) ELSE i1
      intDigits == Slice(s, i0, i1)
      fracDigits == IF hasDot THEN Slice(s, i1 + 1, i2) ELSE <<>>
      hasExp == i2 < Len(s) /\ (At(s, i2) = "e" \/ At(s, i2) = "E")
      expNeg == hasExp /\ i2 + 1 < Len(s) /\ At(s, i2 + 1) = "-"
      i3 == IF hasExp /\ i2 + 1 < Len(s) /\ (At(s, i2 + 1) = "+" \/ At(s, i2 + 1) = "-")
            THEN i2 + 2 ELSE i2 + 1
      i4 == IF hasExp THEN SkipDigits(s, i3) ELSE i2
      e == IF hasExp THEN Call("Atoi", <<Slice(s, i3, i4), 0>>) ELSE 0
      exp == IF expNeg THEN -e ELSE e
      all == intDigits \o fracDigits
      stripped == Call("StripLeadingZeros", <<all>>)
      dp == Len(intDigits) - (Len(all) - Len(stripped)) + exp
  IN  IF all = <<>> THEN Fail("invalid syntax")
      ELSE IF hasExp /\ i4 = i3 THEN Fail("invalid syntax")
      ELSE IF i4 # Len(s) THEN Fail("invalid syntax")
      ELSE Call("RoundToFloat64", <<neg, stripped, dp>>)

ParseFloat(s) ==
  LET neg == s # <<>> /\ s[1] = "-"
      signed == s # <<>> /\ (s[1] = "+" \/ s[1] = "-")
      body == Call("ToLower", <<IF signed THEN Tail(s) ELSE s>>)
  IN  IF body = <<"i", "n", "f">> \/ body = <<"i", "n", "f", "i", "n", "i", "t", "y">>
      THEN Ok(Inf(neg))
      ELSE IF ~signed /\ body = <<"n", "a", "n">> THEN Ok(NaN)
      ELSE Call("ParseDecimal", <<s>>)

\* Conversion of an integer of magnitude at most 2^53 to float64 (exact).
Float64OfInt(i) ==
  LET digits == IF i.limbs = <<>> THEN <<>> ELSE Call("FormatUint", <<i>>)
  IN  Finite(i.neg /\ i.limbs # <<>>, Call("StripTrailingZeros", <<digits>>), Len(digits))

(***************************************************************************)
(* Values.  A host value is a record tagged by its Go kind:                *)
(*   nil, bool, string, jsonNumber (s), float64 (f), int (i), uint (i),    *)
(*   bigInt (i), Object (Fields), slice (items), map (entries, the         *)
(*   key/value pairs in the order MapRange happens to yield them), and     *)
(*   chan for a kind normalize does not support.                           *)
(* A normalized value is nil, bool, string, numberValue (literal), Object  *)
(* or slice.  The decoder returns nil, bool, string, float64, map, slice.  *)
(***************************************************************************)
Nil == [kind |-> "nil"]
Bool(b) == [kind |-> "bool", b |-> b]
Str(s) == [kind |-> "string", s |-> s]
numberValue(literal) == [kind |-> "numberValue", literal |-> literal]
Float64(f) == [kind |-> "float64", f |-> f]
Field(key, value) == [Key |-> key, Value |-> value]
Object(fields) == [kind |-> "Object", Fields |-> fields]
SliceOf(items) == [kind |-> "slice", items |-> items]
MapOf(entries) == [kind |-> "map", entries |-> entries]

IsEmpty(obj) == Len(obj.Fields) = 0

DelimiterComma == ","
DelimiterTab == "\t"
DelimiterPipe == "|"

\* Delimiter.rune
DelimiterRune(d) ==
  CASE d = DelimiterComma -> ","
    [] d = DelimiterTab -> "\t"
    [] d = DelimiterPipe -> "|"
    [] OTHER -> ","

(***************************************************************************)
(* normalize                                                               *)
(***************************************************************************)
normalizeFloat(f) ==
  IF f.class = "nan" THEN Ok(Nil)
  ELSE IF f.class = "inf" THEN Ok(Nil)
  ELSE Ok(numberValue(Call("FormatFloat", <<IF f.d = <<>> THEN Finite(FALSE, <<>>, 0) ELSE f>>)))

normalizeNumberString(s) ==
  LET r == Call("ParseFloat", <<s>>) IN
  IF ~IsOk(r) THEN Ok(Str(s))
  ELSE IF r.val.class = "inf" \/ r.val.class = "nan" THEN Ok(Nil)
  ELSE Ok(numberValue(Call("FormatFloat", <<IF r.val.d = <<>> THEN Finite(FALSE, <<>>, 0) ELSE r.val>>)))

\* slices.SortFunc(fields, by Key): insertion of f into the sorted fields.
InsertSorted(sorted, f) ==
  IF sorted = <<>> THEN <<f>>
  ELSE IF Call("StringLess", <<f.Key, sorted[1].Key>>) THEN <<f>> \o sorted
  ELSE <<sorted[1]>> \o Call("InsertSorted", <<Tail(sorted), f>>)

SortFields(fields) ==
  IF fields = <<>> THEN <<>>
  ELSE Call("InsertSorted", <<Call("SortFields", <<SubSeq(fields, 1, Len(fields) - 1)>>), fields[Len(fields)]>>)

normalizeInt(i) ==
  IF Call("IntLess", <<maxSafeInteger, i>>) \/ Call("IntLess", <<i, Neg(maxSafeInteger)>>)
  THEN Ok(Str(Call("FormatInt", <<i>>)))
  ELSE Ok(numberValue(Call("FormatInt", <<i>>)))

normalizeUint(u) ==
  IF Call("IntLess", <<maxSafeInteger, u>>)
  THEN Ok(Str(Call("FormatUint", <<u>>)))
  ELSE Ok(numberValue(Call("FormatUint", <<u>>)))

\* A faulty normalizeBigInt: it judges a *big.Int by its width, and emits
\* as a number whatever fits into an int64.
normalizeBigIntByWidth(x) ==
  IF Call("IsInt64", <<x>>) THEN Ok(numberValue(Call("FormatInt", <<x>>)))
  ELSE Ok(Str(Call("FormatInt", <<x>>)))

normalizeBigInt(x) ==
  IF Call("IsInt64", <<x>>) THEN Call("normalizeInt", <<x>>) ELSE Ok(Str(Call("FormatInt", <<x>>)))


normalizeObjectFields(fields, cfg) ==
  LET r == Call("normalizeFields", <<fields, <<>>, cfg>>) IN
  IF IsOk(r) THEN Ok(Object(r.val)) ELSE r

\* iter := rv.MapRange(): Go leaves the order of the iteration unspecified;
\* cfg.mapRange says whether this run yields the entries forward or backward.
MapRange(entries, cfg) ==
  IF cfg.mapRange = "backward"
  THEN [i \in 1..Len(entries) |-> entries[Len(entries) + 1 - i]]
  ELSE entries

\* A faulty normalizeMap: it leaves out the sort, so the fields stay in the
\* order of the iteration.
normalizeMapUnsorted(entries, cfg) ==
  LET r == Call("normalizeFields", <<MapRange(entries, cfg), <<>>, cfg>>) IN
  IF IsOk(r) THEN Ok(Object(r.val)) ELSE r

normalizeMap(entries, cfg) ==
  LET r == Call("normalizeFields", <<MapRange(entries, cfg), <<>>, cfg>>) IN
  IF IsOk(r) THEN Ok(Object(Call("SortFields", <<r.val>>))) ELSE r

normalize(v, cfg) ==
  CASE v.kind = "nil" -> Ok(Nil)
    [] v.kind = "string" -> Ok(v)
    [] v.kind = "bool" -> Ok(v)
    [] v.kind = "jsonNumber" -> Call("normalizeNumberString", <<v.s>>)
    [] v.kind = "float64" -> Call("normalizeFloat", <<v.f>>)
    [] v.kind = "int" -> Call("normalizeInt", <<v.i>>)
    [] v.kind = "uint" -> Call("normalizeUint", <<v.i>>)
    [] v.kind = "bigInt" -> Call("normalizeBigInt", <<v.i>>)
    [] v.kind = "Object" -> Call("normalizeObjectFields", <<v.Fields, cfg>>)
    [] v.kind = "slice" -> Call("normalizeSlice", <<v.items, <<>>, cfg>>)
    [] v.kind = "map" -> Call("normalizeMap", <<v.entries, cfg>>)
    [] OTHER -> Fail("toon: unsupported value")

\* for i := 0; i < length; i++ { item, err := normalize(...) ... }
normalizeSlice(items, result, cfg) ==
  IF items = <<>> THEN Ok(SliceOf(result))
  ELSE LET item == Call("normalize", <<items[1], cfg>>) IN
       IF ~IsOk(item) THEN item
       ELSE Call("normalizeSlice", <<Tail(items), Append(result, item.val), cfg>>)

\* for _, field := range fields { child, err := normalize(field.Value, cfg) ... }
normalizeFields(fields, normalized, cfg) ==
  IF fields = <<>> THEN Ok(normalized)
  ELSE LET child == Call("normalize", <<fields[1].Value, cfg>>) IN
       IF ~IsOk(child) THEN child
       ELSE Call("normalizeFields", <<Tail(fields), Append(normalized, Field(fields[1].Key, child.val)), cfg>>)

(***************************************************************************)
(* Encoder.  cfg is an encoderOptions record [indentSize,                  *)
(* documentDelimiter, arrayDelimiter, includeLengthMarks], with mapRange   *)
(* for the order in which this run ranges over maps.  The lines the        *)
(* Go code appends to encodeState.lines are returned as a list, with the   *)
(* error: Ok(lines) or Fail(err).                                          *)
(***************************************************************************)
AndThen(r1, r2) ==
  IF ~IsOk(r1) THEN r1 ELSE IF ~IsOk(r2) THEN r2 ELSE Ok(r1.val \o r2.val)

formatContext(active, document, inArray) ==
  [active |-> active, document |-> document, inArray |-> inArray]

toInternal(c) ==
  [Active |-> DelimiterRune(c.active), Document |-> DelimiterRune(c.document),
   InArray |-> c.inArray]

formatPrimitive(value, ctx) ==
  CASE value.kind = "nil" -> Ok(<<"n", "u", "l", "l">>)
    [] value.kind = "bool" ->
         IF value.b THEN Ok(<<"t", "r", "u", "e">>) ELSE Ok(<<"f", "a", "l", "s", "e">>)
    [] value.kind = "string" -> Call("FormatString", <<value.s, toInternal(ctx)>>)
    [] value.kind = "numberValue" -> Ok(value.literal)
    [] OTHER -> Fail("toon: unsupported primitive")

encodeKey(key) == Call("EncodeKey", <<key>>)

indent(cfg, depth) ==
  IF depth <= 0 THEN <<>> ELSE Spaces(depth * cfg.indentSize)

isPrimitive(value) == value.kind \in {"nil", "bool", "string", "numberValue"}

isPrimitiveArray(values) == \A i \in 1..Len(values) : isPrimitive(values[i])

\* The first value stored under key, nil when there is none.
objField(obj, key) ==
  IF \E i \in 1..Len(obj.Fields) : obj.Fields[i].Key = key
  THEN obj.Fields[CHOOSE i \in 1..Len(obj.Fields) :
                    /\ obj.Fields[i].Key = key
                    /\ \A j \in 1..(i - 1) : obj.Fields[j].Key # key].Value
  ELSE Nil

\* A faulty detectTabular: it asks every element for the keys of the first
\* in the order of the first.
detectTabularOrdered(values) ==
  IF Len(values) = 0 THEN [ok |-> FALSE, fields |-> <<>>]
  ELSE IF values[1].kind # "Object" THEN [ok |-> FALSE, fields |-> <<>>]
  ELSE IF IsEmpty(values[1]) THEN [ok |-> FALSE, fields |-> <<>>]
  ELSE
    LET first == values[1]
        fields == [i \in 1..Len(first.Fields) |-> first.Fields[i].Key]
        rowOk(obj) ==
          /\ obj.kind = "Object"
          /\ [i \in 1..Len(obj.Fields) |-> obj.Fields[i].Key] = fields
          /\ \A i \in 1..Len(obj.Fields) : isPrimitive(obj.Fields[i].Value)
    IN  IF \E k \in 1..Len(values) : ~rowOk(values[k])
        THEN [ok |-> FALSE, fields |-> <<>>]
        ELSE [ok |-> TRUE, fields |-> fields]

\* A faulty detectTabular: it leaves out the comparison of the lengths and
\* the check for keys seen twice, so that an element with fewer keys than
\* the first passes.
detectTabularSubset(values) ==
  IF Len(values) = 0 THEN [ok |-> FALSE, fields |-> <<>>]
  ELSE IF values[1].kind # "Object" THEN [ok |-> FALSE, fields |-> <<>>]
  ELSE IF IsEmpty(values[1]) THEN [ok |-> FALSE, fields |-> <<>>]
  ELSE
    LET first == values[1]
        fields == [i \in 1..Len(first.Fields) |-> first.Fields[i].Key]
        fieldSet == {first.Fields[i].Key : i \in 1..Len(first.Fields)}
        rowOk(obj) ==
          /\ obj.kind = "Object"
          /\ \A i \in 1..Len(obj.Fields) :
               obj.Fields[i].Key \in fieldSet /\ isPrimitive(obj.Fields[i].Value)
    IN  IF \E k \in 1..Len(values) : ~rowOk(values[k])
        THEN [ok |-> FALSE, fields |-> <<>>]
        ELSE [ok |-> TRUE, fields |-> fields]

\* detectTabular returns (fields, ok): here [ok, fields].
detectTabular(values) ==
  IF Len(values) = 0 THEN [ok |-> FALSE, fields |-> <<>>]
  ELSE IF values[1].kind # "Object" THEN [ok |-> FALSE, fields |-> <<>>]
  ELSE IF IsEmpty(values[1]) THEN [ok |-> FALSE, fields |-> <<>>]
  ELSE
    LET first == values[1]
        fields == [i \in 1..Len(first.Fields) |-> first.Fields[i].Key]
        fieldSet == {first.Fields[i].Key : i \in 1..Len(first.Fields)}
        rowOk(obj) ==
          /\ obj.kind = "Object"
          /\ Len(obj.Fields) = Len(fields)
          /\ \A i \in 1..Len(obj.Fields) :
               obj.Fields[i].Key \in fieldSet /\ isPrimitive(obj.Fields[i].Value)
          /\ Cardinality({obj.Fields[i].Key : i \in 1..Len(obj.Fields)}) = Len(fields)
    IN  IF \E i \in 1..Len(first.Fields) : ~isPrimitive(first.Fields[i].Value)
        THEN [ok |-> FALSE, fields |-> <<>>]
        ELSE IF \E k \in 2..Len(values) : ~rowOk(values[k])
        THEN [ok |-> FALSE, fields |-> <<>>]
        ELSE [ok |-> TRUE, fields |-> fields]

\* The field segment of a header; the error of encodeKey is dropped
\* (fieldLiteral, _ := encodeKey(field)) and the literal is then "".
renderFields(fields, delimiter) ==
  IF fields = <<>> THEN <<>>
  ELSE LET lit == Call("encodeKey", <<fields[1]>>)
           fieldLiteral == IF IsOk(lit) THEN lit.val ELSE <<>>
       IN  IF Len(fields) = 1 THEN fieldLiteral
           ELSE fieldLiteral \o <<DelimiterRune(delimiter)>> \o Call("renderFields", <<Tail(fields), delimiter>>)

\* A faulty renderHeader, which writes the delimiter character in the
\* bracket even when it is the comma.
renderHeaderWithComma(keyLiteral, length, delimiter, includeMarker, fields) ==
  keyLiteral \o <<"[">>
  \o (IF includeMarker THEN <<"#">> ELSE <<>>)
  \o Itoa(length)
  \o <<DelimiterRune(delimiter)>>
  \o <<"]">>
  \o (IF Len(fields) > 0 THEN <<"{">> \o Call("renderFields", <<fields, delimiter>>) \o <<"}">> ELSE <<>>)
  \o <<":">>

renderHeader(keyLiteral, length, delimiter, includeMarker, fields) ==
  keyLiteral \o <<"[">>
  \o (IF includeMarker THEN <<"#">> ELSE <<>>)
  \o Itoa(length)
  \o (IF delimiter # DelimiterComma THEN <<DelimiterRune(delimiter)>> ELSE <<>>)
  \o <<"]">>
  \o (IF Len(fields) > 0 THEN <<"{">> \o Call("renderFields", <<fields, delimiter>>) \o <<"}">> ELSE <<>>)
  \o <<":">>

\* for _, v := range values { token, err := formatPrimitive(v, ctx) ... }
formatPrimitives(values, ctx) ==
  IF values = <<>> THEN Ok(<<>>)
  ELSE LET token == Call("formatPrimitive", <<values[1], ctx>>)
           rest == Call("formatPrimitives", <<Tail(values), ctx>>)
       IN  IF ~IsOk(token) THEN token
           ELSE IF ~IsOk(rest) THEN rest
           ELSE Ok(<<token.val>> \o rest.val)

\* The rows of a tabular array, each at the given indent.
encodeRows(rows, fields, rowIndent, delimiter, ctx) ==
  IF rows = <<>> THEN Ok(<<>>)
  ELSE LET obj == rows[1]
           rowValues == Call("formatPrimitives", <<[i \in 1..Len(fields) |-> Call("objField", <<obj, fields[i]>>)], ctx>>)
       IN  IF ~IsOk(rowValues) THEN rowValues
           ELSE AndThen(Ok(<<rowIndent \o Call("Join", <<rowValues.val, <<DelimiterRune(delimiter)>>>>)>>),
                        Call("encodeRows", <<Tail(rows), fields, rowIndent, delimiter, ctx>>))

\* header + (" " + inline values), the single line of a primitive array.
inlineLine(prefix, header, values, delimiter, ctx) ==
  LET inline == Call("formatPrimitives", <<values, ctx>>) IN
  IF Len(values) = 0 THEN Ok(<<prefix \o header>>)
  ELSE IF ~IsOk(inline) THEN inline
  ELSE Ok(<<prefix \o header \o <<" ">> \o Call("Join", <<inline.val, <<DelimiterRune(delimiter)>>>>)>>)


\* A faulty encodeObject: it emits the fields in ascending key order and
\* not in the order of obj.Fields.
encodeObjectSorted(cfg, obj, depth) ==
  IF depth = 0 /\ IsEmpty(obj) THEN Ok(<<>>)
  ELSE Call("encodeObjectFields", <<cfg, Call("SortFields", <<obj.Fields>>), depth>>)

encodeObject(cfg, obj, depth) ==
  IF depth = 0 /\ IsEmpty(obj) THEN Ok(<<>>)
  ELSE Call("encodeObjectFields", <<cfg, obj.Fields, depth>>)

\* for _, field := range obj.Fields { switch val := field.Value.(type) ... }
encodeObjectFields(cfg, fields, depth) ==
  IF fields = <<>> THEN Ok(<<>>)
  ELSE
    LET field == fields[1]
        keyLiteral == Call("encodeKey", <<field.Key>>)
        token == Call("formatPrimitive", <<field.Value, formatContext(cfg.arrayDelimiter, cfg.documentDelimiter, FALSE)>>)
        this ==
          CASE isPrimitive(field.Value) ->
                 IF ~IsOk(keyLiteral) THEN keyLiteral
                 ELSE IF ~IsOk(token) THEN token
                 ELSE Ok(<<indent(cfg, depth) \o keyLiteral.val \o <<":", " ">> \o token.val>>)
            [] field.Value.kind = "Object" ->
                 IF ~IsOk(keyLiteral) THEN keyLiteral
                 ELSE AndThen(Ok(<<indent(cfg, depth) \o keyLiteral.val \o <<":">>>>),
                              Call("encodeObject", <<cfg, field.Value, depth + 1>>))
            [] field.Value.kind = "slice" ->
                 Call("encodeArray", <<cfg, field.Key, field.Value.items, depth, FALSE>>)
            [] OTHER -> Fail("toon: unsupported object field")
    IN  AndThen(this, Call("encodeObjectFields", <<cfg, Tail(fields), depth>>))

encodeArray(cfg, key, values, depth, root) ==
  LET delimiter == cfg.arrayDelimiter
      ctx == formatContext(delimiter, cfg.documentDelimiter, TRUE)
      keyRes == IF key # <<>> THEN Call("encodeKey", <<key>>) ELSE Ok(<<>>)
      keyLiteral == keyRes.val
      tab == Call("detectTabular", <<values>>)
  IN  IF ~IsOk(keyRes) THEN keyRes
      ELSE IF Call("isPrimitiveArray", <<values>>)
      THEN Call("inlineLine", <<indent(cfg, depth),
                      Call("renderHeader", <<keyLiteral, Len(values), delimiter, cfg.includeLengthMarks, <<>>>>),
                      values, delimiter, ctx>>)
      ELSE IF tab.ok
      THEN AndThen(Ok(<<indent(cfg, depth)
                        \o Call("renderHeader", <<keyLiteral, Len(values), delimiter, cfg.includeLengthMarks, tab.fields>>)>>),
                   Call("encodeRows", <<values, tab.fields, indent(cfg, depth + 1), delimiter, ctx>>))
      ELSE AndThen(Ok(<<indent(cfg, depth)
                        \o Call("renderHeader", <<keyLiteral, Len(values), delimiter, cfg.includeLengthMarks, <<>>>>)>>),
                   Call("encodeItems", <<cfg, values, depth + 1, ctx, root>>))

\* for _, item := range values: encodeListItem under a root array, else
\* encodeArrayItem.
encodeItems(cfg, values, depth, ctx, root) ==
  IF values = <<>> THEN Ok(<<>>)
  ELSE AndThen(IF root THEN Call("encodeListItem", <<cfg, values[1], depth, ctx>>)
               ELSE Call("encodeArrayItem", <<cfg, values[1], depth, ctx>>),
               Call("encodeItems", <<cfg, Tail(values), depth, ctx, root>>))

encodeArrayItem(cfg, item, depth, ctx) ==
  LET token == Call("formatPrimitive", <<item, ctx>>) IN
  CASE isPrimitive(item) ->
         IF ~IsOk(token) THEN token
         ELSE Ok(<<indent(cfg, depth) \o <<"-", " ">> \o token.val>>)
    [] item.kind = "Object" -> Call("encodeObjectListItem", <<cfg, item, depth, ctx>>)
    [] item.kind = "slice" -> Call("encodeArrayForObjectListItem", <<cfg, <<>>, item.items, depth, ctx>>)
    [] OTHER -> Fail("toon: unsupported array item")

encodeListItem(cfg, item, depth, ctx) ==
  LET token == Call("formatPrimitive", <<item, ctx>>) IN
  CASE isPrimitive(item) ->
         IF ~IsOk(token) THEN token
         ELSE Ok(<<indent(cfg, depth) \o <<"-", " ">> \o token.val>>)
    [] item.kind = "Object" -> Call("encodeObjectListItem", <<cfg, item, depth, ctx>>)
    [] item.kind = "slice" -> Call("encodeArrayForObjectListItem", <<cfg, <<>>, item.items, depth, ctx>>)
    [] OTHER -> Fail("toon: unsupported list item")

encodeObjectListItem(cfg, obj, depth, ctx) ==
  IF IsEmpty(obj) THEN Ok(<<indent(cfg, depth) \o <<"-", " ", "{", "}">>>>)
  ELSE
    LET first == obj.Fields[1]
        keyLiteral == Call("encodeKey", <<first.Key>>)
        token == Call("formatPrimitive", <<first.Value, ctx>>)
        rest == IF Len(obj.Fields) > 1
                THEN Call("encodeObject", <<cfg, Object(Tail(obj.Fields)), depth + 1>>)
                ELSE Ok(<<>>)
    IN  IF isPrimitive(first.Value)
        THEN IF ~IsOk(keyLiteral) THEN keyLiteral
             ELSE IF ~IsOk(token) THEN token
             ELSE AndThen(Ok(<<indent(cfg, depth) \o <<"-", " ">> \o keyLiteral.val
                               \o <<":", " ">> \o token.val>>),
                          rest)
        ELSE IF first.Value.kind = "slice"
        THEN IF ~IsOk(keyLiteral) THEN keyLiteral
             ELSE AndThen(Call("encodeArrayForObjectListItem", <<cfg, keyLiteral.val, first.Value.items, depth, ctx>>),
                          rest)
        ELSE AndThen(Ok(<<indent(cfg, depth) \o <<"-">>>>), Call("encodeObject", <<cfg, obj, depth + 1>>))

encodeArrayForObjectListItem(cfg, keyLiteral, values, depth, ctx) ==
  LET delimiter == ctx.active
      prefix == indent(cfg, depth) \o <<"-", " ">>
      tab == Call("detectTabular", <<values>>)
  IN  IF tab.ok
      THEN AndThen(Ok(<<prefix \o Call("renderHeader", <<keyLiteral, Len(values), delimiter, cfg.includeLengthMarks, tab.fields>>)>>),
                   Call("encodeRows", <<values, tab.fields, indent(cfg, depth + 1), delimiter, ctx>>))
      ELSE IF Call("isPrimitiveArray", <<values>>)
      THEN Call("inlineLine", <<prefix,
                      Call("renderHeader", <<keyLiteral, Len(values), delimiter, cfg.includeLengthMarks, <<>>>>),
                      values, delimiter, ctx>>)
      ELSE AndThen(Ok(<<prefix \o Call("renderHeader", <<keyLiteral, Len(values), delimiter, cfg.includeLengthMarks, <<>>>>)>>),
                   Call("encodeItems", <<cfg, values, depth + 1, ctx, TRUE>>))

encodeRoot(cfg, value) ==
  LET token == Call("formatPrimitive", <<value, formatContext(cfg.arrayDelimiter, cfg.documentDelimiter, FALSE)>>) IN
  CASE isPrimitive(value) -> IF ~IsOk(token) THEN token ELSE Ok(<<token.val>>)
    [] value.kind = "Object" -> Call("encodeObject", <<cfg, value, 0>>)
    [] value.kind = "slice" -> Call("encodeArray", <<cfg, <<>>, value.items, 0, TRUE>>)
    [] OTHER -> Fail("toon: unsupported root value")

\* Encoder.Marshal: normalize, encodeRoot, strings.Join(state.lines, "\n").
Marshal(cfg, v) ==
  LET normalized == Call("normalize", <<v, cfg>>)
      state == Call("encodeRoot", <<cfg, normalized.val>>)
  IN  IF ~IsOk(normalized) THEN normalized
      ELSE IF ~IsOk(state) THEN state
      ELSE Ok(Call("Join", <<state.val, <<"\n">>>>))

(***************************************************************************)
(* Decoder: tokens and headers.  cfg is a decoderOptions record [strict,   *)
(* indentSize, documentDelim].  A parse error is its message and the line  *)
(* number errorAt/errorWrap attach to it; the arguments of a formatted     *)
(* message are not kept.                                                   *)
(***************************************************************************)
\* indexOutsideQuotes: the loop keeps [inQuotes, escaped, found].
indexOutsideStep(s, target, st, idx) ==
  LET r == At(s, idx) IN
  CASE st.found # -1 -> st
    [] st.found = -1 /\ st.escaped -> [st EXCEPT !.escaped = FALSE]
    [] st.found = -1 /\ ~st.escaped /\ r = "\\" /\ st.inQuotes -> [st EXCEPT !.escaped = TRUE]
    [] st.found = -1 /\ ~st.escaped /\ ~(r = "\\" /\ st.inQuotes) /\ r = "\"" ->
         [st EXCEPT !.inQuotes = ~@]
    [] st.found = -1 /\ ~st.escaped /\ ~(r = "\\" /\ st.inQuotes) /\ r # "\""
         /\ ~st.inQuotes /\ r = target -> [st EXCEPT !.found = idx]
    [] OTHER -> st

indexOutsideQuotes(s, target) ==
  Loop(LAMBDA acc, idx : Call("indexOutsideStep", <<s, target, acc, idx>>), 0, Len(s) - 1,
       [inQuotes |-> FALSE, escaped |-> FALSE, found |-> -1]).found

isKeyValue(content) == Call("indexOutsideQuotes", <<content, ":">>) > 0

hasForbiddenLeadingZeros(token) ==
  IF Len(token) < 2 THEN FALSE
  ELSE IF At(token, 0) # "0" /\ (Len(token) <= 1 \/ At(token, 0) # "-" \/ At(token, 1) # "0")
  THEN FALSE
  ELSE IF ContainsRune(token, ".") \/ ContainsAny(token, {"e", "E"}) THEN FALSE
  ELSE IF At(token, 0) = "-"
  THEN Len(token) > 2 /\ At(token, 1) = "0" /\ IsDigit(At(token, 2))
  ELSE IsDigit(At(token, 1))

decodePrimitiveToken(token) ==
  IF token = <<>> THEN Ok(Str(<<>>))
  ELSE IF At(token, 0) = "\""
  THEN LET u == Call("UnquoteString", <<token>>) IN IF IsOk(u) THEN Ok(Str(u.val)) ELSE u
  ELSE IF token = <<"t", "r", "u", "e">> THEN Ok(Bool(TRUE))
  ELSE IF token = <<"f", "a", "l", "s", "e">> THEN Ok(Bool(FALSE))
  ELSE IF token = <<"n", "u", "l", "l">> THEN Ok(Nil)
  ELSE IF Call("hasForbiddenLeadingZeros", <<token>>) THEN Ok(Str(token))
  ELSE IF Call("LooksNumeric", <<token>>)
  THEN LET num == Call("ParseFloat", <<token>>) IN
       IF ~IsOk(num) THEN Fail(num.err)
       ELSE IF num.val.class = "finite" /\ num.val.d = <<>> THEN Ok(Float64(Finite(FALSE, <<>>, 0)))
       ELSE Ok(Float64(num.val))
  ELSE Ok(Str(token))

decodeKeyToken(token) ==
  IF token = <<>> THEN Fail("empty key")
  ELSE IF At(token, 0) = "\"" THEN Call("UnquoteString", <<token>>)
  ELSE IF ~Call("IsValidUnquotedKey", <<token>>) THEN Fail("invalid unquoted key %q")
  ELSE Ok(token)

\* splitKeyValue returns (key, valueToken, err) as [err, key, rest].
splitKeyValue(content) ==
  LET colon == Call("indexOutsideQuotes", <<content, ":">>)
      keyToken == TrimSpace(Slice(content, 0, colon))
      valueToken == TrimSpace(SliceFrom(content, colon + 1))
      key == Call("decodeKeyToken", <<keyToken>>)
  IN  IF colon = -1 THEN [err |-> "missing colon after key", key |-> <<>>, rest |-> <<>>]
      ELSE IF ~IsOk(key) THEN [err |-> key.err, key |-> <<>>, rest |-> <<>>]
      ELSE [err |-> "nil", key |-> key.val, rest |-> valueToken]

\* a > b on decimal digit strings without leading zeros.
DecimalGreater(a, b) == Len(a) > Len(b) \/ (Len(a) = Len(b) /\ StringLess(b, a))

\* math.MaxInt64, the largest length strconv.Atoi returns on a 64-bit build.
MaxIntDigits == <<"9", "2", "2", "3", "3", "7", "2", "0", "3", "6", "8", "5", "4", "7", "7", "5", "8", "0", "7">>

\* The largest capacity make([]any, 0, n) accepts on a 64-bit build: the
\* runtime's maxAlloc (1 << 48 bytes) over the 16 bytes of an interface
\* value, 1 << 44 elements.  Above it makeslice panics.
MaxSliceCapDigits == <<"1", "7", "5", "9", "2", "1", "8", "6", "0", "4", "4", "4", "1", "6">>

\* parseBracketSegment returns (length, delimiter, err) as [err, length, delim,
\* overCap].  The length is kept as Atoi keeps it; overCap tells whether it
\* is above the largest capacity of a slice.
\* The loop returns at the first rune that is neither a digit nor a
\* delimiter symbol; otherwise the last delimiter symbol wins.  Lengths of
\* five and more digits exceed every array of the model and are read as a
\* large number (Atoi stops accumulating).
parseBracketSegment(segment0) ==
  LET segment == IF HasPrefix(segment0, <<"#">>) THEN SliceFrom(segment0, 1) ELSE segment0
      bad == {i \in 1..Len(segment) : ~IsDigit(segment[i]) /\ segment[i] \notin {"\t", "|"}}
      marks == {i \in 1..Len(segment) : segment[i] \in {"\t", "|"}}
      delim == IF marks = {} THEN DelimiterComma
               ELSE IF segment[Max(marks)] = "\t" THEN DelimiterTab ELSE DelimiterPipe
      lengthStr == SelectSeq(segment, IsDigit)
      stripped == Call("StripLeadingZeros", <<lengthStr>>)
      none == [err |-> "nil", length |-> 0, delim |-> DelimiterComma, overCap |-> FALSE]
  IN  IF segment = <<>> THEN [none EXCEPT !.err = "missing array length"]
      ELSE IF bad # {} THEN [none EXCEPT !.err = "invalid delimiter symbol %q"]
      ELSE IF lengthStr = <<>> THEN [none EXCEPT !.err = "missing digits in array length"]
      ELSE IF DecimalGreater(stripped, MaxIntDigits) THEN [none EXCEPT !.err = "value out of range"]
      ELSE [err |-> "nil", length |-> Call("Atoi", <<lengthStr, 0>>), delim |-> delim,
            overCap |-> DecimalGreater(stripped, MaxSliceCapDigits)]

parsedHeader(key, length, delimiter, fields, inlineValues) ==
  [key |-> key, length |-> length, delimiter |-> delimiter, fields |-> fields,
   inlineValues |-> inlineValues, overCap |-> FALSE]

\* for _, token := range rawFields { field, err := decodeKeyToken(token) ... }
decodeFields(rawFields, fields) ==
  IF rawFields = <<>> THEN Ok(fields)
  ELSE LET field == Call("decodeKeyToken", <<rawFields[1]>>) IN
       IF ~IsOk(field) THEN field
       ELSE Call("decodeFields", <<Tail(rawFields), Append(fields, field.val)>>)

\* tryParseHeader returns (header, ok, err) as [err, ok, header].
tryParseHeader(content) ==
  LET colon == Call("indexOutsideQuotes", <<content, ":">>)
      left == TrimSpace(Slice(content, 0, colon))
      right == TrimSpace(SliceFrom(content, colon + 1))
      bracketStart == Call("indexOutsideQuotes", <<left, "[">>)
      rest == SliceFrom(left, bracketStart + 1)
      bracketOffset == Call("indexOutsideQuotes", <<rest, "]">>)
      keyPart == TrimSpace(Slice(left, 0, bracketStart))
      bracketSegment == Slice(rest, 0, bracketOffset)
      fieldSegment == TrimSpace(SliceFrom(rest, bracketOffset + 1))
      key == IF keyPart # <<>> THEN Call("decodeKeyToken", <<keyPart>>) ELSE Ok(<<>>)
      seg == Call("parseBracketSegment", <<bracketSegment>>)
      inner == Slice(fieldSegment, 1, Len(fieldSegment) - 1)
      rawFields == Call("SplitInlineValues", <<inner, DelimiterRune(seg.delim)>>)
      fields == IF fieldSegment # <<>> /\ inner # <<>>
                THEN (IF IsOk(rawFields) THEN Call("decodeFields", <<rawFields.val, <<>>>>) ELSE rawFields)
                ELSE Ok(<<>>)
      no == [err |-> "nil", ok |-> FALSE, header |-> parsedHeader(<<>>, 0, DelimiterComma, <<>>, <<>>)]
  IN  IF colon = -1 THEN no
      ELSE IF left = <<>> THEN no
      ELSE IF bracketStart = -1 THEN no
      ELSE IF bracketOffset = -1 THEN [no EXCEPT !.err = "missing closing bracket in array header"]
      ELSE IF ~IsOk(key) THEN [no EXCEPT !.err = key.err]
      ELSE IF seg.err # "nil" THEN [no EXCEPT !.err = seg.err]
      ELSE IF fieldSegment # <<>>
              /\ (~HasPrefix(fieldSegment, <<"{">>) \/ ~HasSuffix(fieldSegment, <<"}">>))
      THEN [no EXCEPT !.err = "invalid field segment in array header"]
      ELSE IF ~IsOk(fields) THEN [no EXCEPT !.err = fields.err]
      ELSE [err |-> "nil", ok |-> TRUE,
            header |-> [parsedHeader(key.val, seg.length, seg.delim, fields.val, right)
                          EXCEPT !.overCap = seg.overCap]]

(***************************************************************************)
(* Decoder: lines.  A parser is [lines, cfg]; its cursor pos is threaded   *)
(* through the parse operators, which return [err, line, val, pos]: the    *)
(* error message ("nil" for none), the line number of the error, the       *)
(* value, and the cursor on return.  A map[string]any is MapOf(entries),   *)
(* one entry per key; the order of the entries is the order in which a     *)
(* range over the map yields them (here: the order of insertion).          *)
(***************************************************************************)
parsedLine(number, ind, content, blank) ==
  [number |-> number, indent |-> ind, content |-> content, blank |-> blank]

splitLines(input) ==
  LET lines == Call("Split", <<Call("ReplaceCRLF", <<input>>), "\n">>)
  IN  IF Len(lines) > 0 /\ lines[Len(lines)] = <<>> THEN SubSeq(lines, 1, Len(lines) - 1) ELSE lines

\* computeIndent returns (indent, content, err) as [err, indent, content].
computeIndent(line, cfg) ==
  LET other == {i \in 0..(Len(line) - 1) : At(line, i) # " " /\ At(line, i) # "\t"}
      stop == IF other = {} THEN Len(line) ELSE Min(other)
      tab == \E i \in 0..(stop - 1) : At(line, i) = "\t"
  IN  IF cfg.strict /\ tab
      THEN [err |-> "tabs are not allowed in indentation (strict mode)", indent |-> 0, content |-> <<>>]
      ELSE IF stop = Len(line) THEN [err |-> "nil", indent |-> 0, content |-> <<>>]
      ELSE IF cfg.strict /\ stop % cfg.indentSize # 0
      THEN [err |-> "indentation must be a multiple of %d spaces", indent |-> 0, content |-> <<>>]
      ELSE [err |-> "nil", indent |-> stop \div cfg.indentSize, content |-> SliceFrom(line, stop)]

PResult(val, pos) == [err |-> "nil", line |-> 0, val |-> val, pos |-> pos]
errorAt(line, msg, pos) == [err |-> msg, line |-> line, val |-> Nil, pos |-> pos]

\* newParser: the loop over rawLines keeps [lines, err, line].
newParserStep(rawLines, cfg, st, idx) ==
  LET raw == At(rawLines, idx)
      ci == Call("computeIndent", <<raw, cfg>>)
  IN  IF st.err # "nil" THEN st
      ELSE IF raw = <<>>
      THEN [st EXCEPT !.lines = Append(@, parsedLine(idx + 1, 0, <<>>, TRUE))]
      ELSE IF ci.err # "nil" THEN [st EXCEPT !.err = ci.err, !.line = idx + 1]
      ELSE [st EXCEPT !.lines = Append(@, parsedLine(idx + 1, ci.indent, ci.content,
                                                     TrimSpace(ci.content) = <<>>))]

newParser(input, cfg) ==
  LET rawLines == Call("splitLines", <<input>>)
      st == Loop(LAMBDA acc, idx : Call("newParserStep", <<rawLines, cfg, acc, idx>>), 0, Len(rawLines) - 1,
                 [lines |-> <<>>, err |-> "nil", line |-> 0])
  IN  [err |-> st.err, line |-> st.line, lines |-> st.lines, cfg |-> cfg]

current(p, pos) == At(p.lines, pos)

skipBlankLinesOutsideArrays(p, pos) ==
  LET stop == {i \in pos..(Len(p.lines) - 1) : ~At(p.lines, i).blank}
  IN  IF stop = {} THEN (IF pos < Len(p.lines) THEN Len(p.lines) ELSE pos) ELSE Min(stop)

countRemainingNonBlank(p, pos) ==
  Cardinality({i \in pos..(Len(p.lines) - 1) : ~At(p.lines, i).blank})

\* A faulty look-ahead, which finds no line after any blank line.
nextNonBlankIndentNone(p, from) == [indent |-> 0, ok |-> FALSE]

\* nextNonBlankIndent returns (indent, ok) as [indent, ok].
nextNonBlankIndent(p, from) ==
  LET rest == {i \in (from + 1)..(Len(p.lines) - 1) : ~At(p.lines, i).blank}
  IN  IF rest = {} THEN [indent |-> 0, ok |-> FALSE]
      ELSE [indent |-> At(p.lines, Min(rest)).indent, ok |-> TRUE]

\* m[key] = value on a map[string]any: the value of an existing key is
\* replaced, a new key is added.
MapPut(entries, key, value) ==
  IF \E i \in 1..Len(entries) : entries[i].Key = key
  THEN [i \in 1..Len(entries) |->
          IF entries[i].Key = key THEN Field(key, value) ELSE entries[i]]
  ELSE Append(entries, Field(key, value))

\* for _, token := range raw { value, err := decodePrimitiveToken(token) ... }
decodeTokens(raw, values) ==
  IF raw = <<>> THEN Ok(values)
  ELSE LET value == Call("decodePrimitiveToken", <<raw[1]>>) IN
       IF ~IsOk(value) THEN value
       ELSE Call("decodeTokens", <<Tail(raw), Append(values, value.val)>>)

\* for idx, field := range header.fields { if idx >= len(raw) { break } ... }
decodeRow(fields, raw, idx, row) ==
  IF idx >= Len(fields) \/ idx >= Len(raw) THEN Ok(row)
  ELSE LET value == Call("decodePrimitiveToken", <<At(raw, idx)>>) IN
       IF ~IsOk(value) THEN value
       ELSE Call("decodeRow", <<fields, raw, idx + 1, Call("MapPut", <<row, At(fields, idx), value.val>>)>>)

(***************************************************************************)
(* Decoder: the recursive-descent parser.  Each loop of the Go code is an  *)
(* operator that takes the cursor and the accumulated value and calls      *)
(* itself where the Go loop continues.                                     *)
(***************************************************************************)

parseObject(p, pos, depth) == Call("parseObjectLoop", <<p, pos, depth, <<>>>>)

parseObjectLoop(p, pos, depth, result) ==
  IF pos >= Len(p.lines) THEN PResult(MapOf(result), pos)
  ELSE
    LET line == current(p, pos)
        h == Call("tryParseHeader", <<line.content>>)
        kv == Call("splitKeyValue", <<line.content>>)
    IN  IF line.blank THEN Call("parseObjectLoop", <<p, pos + 1, depth, result>>)
        ELSE IF line.indent < depth THEN PResult(MapOf(result), pos)
        ELSE IF line.indent > depth THEN errorAt(line.number, "unexpected indentation", pos)
        ELSE IF h.err # "nil" THEN errorAt(line.number, h.err, pos)
        ELSE IF h.ok
        THEN IF h.header.key = <<>>
             THEN errorAt(line.number, "arrays within objects must have a key", pos)
             ELSE LET value == Call("parseArray", <<p, pos + 1, h.header, depth>>) IN
                  IF ~IsOk(value) THEN value
                  ELSE Call("parseObjectLoop", <<p, value.pos, depth, Call("MapPut", <<result, h.header.key, value.val>>)>>)
        ELSE IF kv.err # "nil" THEN errorAt(line.number, kv.err, pos)
        ELSE IF kv.rest = <<>>
        THEN LET nextValue == Call("parseObject", <<p, pos + 1, depth + 1>>) IN
             IF ~IsOk(nextValue) THEN nextValue
             ELSE Call("parseObjectLoop", <<p, nextValue.pos, depth, Call("MapPut", <<result, kv.key, nextValue.val>>)>>)
        ELSE LET value == Call("decodePrimitiveToken", <<kv.rest>>) IN
             IF ~IsOk(value) THEN errorAt(line.number, value.err, pos + 1)
             ELSE Call("parseObjectLoop", <<p, pos + 1, depth, Call("MapPut", <<result, kv.key, value.val>>)>>)

\* The inline branch of parseArray: len(header.inlineValues) > 0.
\* A faulty inline branch, which splits the values by the decoder's document
\* delimiter.
parseInlineArrayByDocument(p, pos, header) ==
  LET raw == Call("SplitInlineValues", <<header.inlineValues, DelimiterRune(p.cfg.documentDelim)>>)
      values == Call("decodeTokens", <<raw.val, <<>>>>)
      number == At(p.lines, pos - 1).number
  IN  IF ~IsOk(raw) THEN errorAt(number, raw.err, pos)
      ELSE IF ~IsOk(values) THEN errorAt(number, values.err, pos)
      ELSE IF p.cfg.strict /\ Len(values.val) # header.length
      THEN errorAt(number, "inline array length mismatch; expected %d, got %d", pos)
      ELSE PResult(SliceOf(values.val), pos)

parseInlineArray(p, pos, header) ==
  LET raw == Call("SplitInlineValues", <<header.inlineValues, DelimiterRune(header.delimiter)>>)
      values == Call("decodeTokens", <<raw.val, <<>>>>)
      number == At(p.lines, pos - 1).number
  IN  IF ~IsOk(raw) THEN errorAt(number, raw.err, pos)
      ELSE IF ~IsOk(values) THEN errorAt(number, values.err, pos)
      ELSE IF p.cfg.strict /\ Len(values.val) # header.length
      THEN errorAt(number, "inline array length mismatch; expected %d, got %d", pos)
      ELSE PResult(SliceOf(values.val), pos)

\* A faulty end of the tabular branch, which compares the lengths in
\* lenient mode too.
finishTabularAlways(p, pos, header, rows) ==
  IF Len(rows) # header.length
  THEN errorAt(At(p.lines, pos - 1).number, "tabular length mismatch; expected %d rows", pos)
  ELSE PResult(SliceOf(rows), pos)

\* The end of the tabular branch, after its loop.
finishTabular(p, pos, header, rows) ==
  IF p.cfg.strict /\ Len(rows) # header.length
  THEN errorAt(At(p.lines, pos - 1).number, "tabular length mismatch; expected %d rows", pos)
  ELSE PResult(SliceOf(rows), pos)

parseTabularRows(p, pos, header, depth, rows) ==
  IF pos >= Len(p.lines) THEN Call("finishTabular", <<p, pos, header, rows>>)
  ELSE
    LET line == current(p, pos)
        next == Call("nextNonBlankIndent", <<p, pos>>)
        trimmed == TrimSpace(line.content)
        raw == Call("SplitInlineValues", <<trimmed, DelimiterRune(header.delimiter)>>)
        row == Call("decodeRow", <<header.fields, raw.val, 0, <<>>>>)
    IN  IF line.blank
        THEN IF p.cfg.strict
             THEN IF ~next.ok \/ next.indent <= depth THEN Call("finishTabular", <<p, pos, header, rows>>)
                  ELSE errorAt(line.number, "blank line inside tabular array", pos)
             ELSE Call("parseTabularRows", <<p, pos + 1, header, depth, rows>>)
        ELSE IF line.indent <= depth THEN Call("finishTabular", <<p, pos, header, rows>>)
        ELSE IF line.indent # depth + 1
        THEN errorAt(line.number, "invalid indentation for tabular row", pos)
        ELSE IF Call("indexOutsideQuotes", <<trimmed, ":">>) # -1 THEN Call("finishTabular", <<p, pos, header, rows>>)
        ELSE IF ~IsOk(raw) THEN errorAt(line.number, raw.err, pos + 1)
        ELSE IF p.cfg.strict /\ Len(raw.val) # Len(header.fields)
        THEN errorAt(line.number, "tabular row width mismatch", pos + 1)
        ELSE IF ~IsOk(row) THEN errorAt(line.number, row.err, pos + 1)
        ELSE IF p.cfg.strict /\ Len(rows) + 1 > header.length
        THEN errorAt(line.number, "too many tabular rows (expected %d)", pos + 1)
        ELSE Call("parseTabularRows", <<p, pos + 1, header, depth, Append(rows, MapOf(row.val))>>)

\* A faulty end of the list branch, which moves the cursor past the line
\* that ended the loop.
finishListPastEnd(p, pos, header, values) ==
  IF p.cfg.strict /\ Len(values) # header.length
  THEN errorAt(At(p.lines, pos - 1).number, "list length mismatch; expected %d items", pos)
  ELSE PResult(SliceOf(values), IF pos < Len(p.lines) THEN pos + 1 ELSE pos)

\* A faulty end of the list branch, which does not compare the lengths.
finishListUnchecked(p, pos, header, values) == PResult(SliceOf(values), pos)

\* The end of the list branch, after its loop.
finishList(p, pos, header, values) ==
  IF p.cfg.strict /\ Len(values) # header.length
  THEN errorAt(At(p.lines, pos - 1).number, "list length mismatch; expected %d items", pos)
  ELSE PResult(SliceOf(values), pos)

\* The run-time panic of make([]any, 0, header.length) for a length above
\* the largest capacity.  No function of the package recovers it, so Decode
\* does not return.
MakeSlicePanic == "panic: runtime error: makeslice: cap out of range"

parseArray(p, pos, header, depth) ==
  IF Len(header.inlineValues) > 0 THEN Call("parseInlineArray", <<p, pos, header>>)
  ELSE IF header.overCap THEN errorAt(0, MakeSlicePanic, pos)
  ELSE IF Len(header.fields) > 0 THEN Call("parseTabularRows", <<p, pos, header, depth, <<>>>>)
  ELSE Call("parseListItems", <<p, pos, header, depth, <<>>>>)

\* One iteration of the list loop for the item on line `line`, after p.pos++
\* (the cursor is pos): the item starts with "[".
parseListArrayItem(p, pos, header, depth, values, line, itemContent) ==
  LET ih == Call("tryParseHeader", <<itemContent>>)
      itemValue == Call("parseArray", <<p, pos, ih.header, depth + 1>>)
  IN  IF ih.err # "nil" THEN errorAt(line.number, ih.err, pos)
      ELSE IF ~ih.ok THEN errorAt(line.number, "invalid array header in list item", pos)
      ELSE IF ~IsOk(itemValue) THEN itemValue
      ELSE Call("parseListItems", <<p, itemValue.pos, header, depth, Append(values, itemValue.val)>>)

\* ... the item is "key[N]...:": an object whose first field is an array.
parseListHeaderItem(p, pos, header, depth, values, line, h) ==
  LET arrayValue == Call("parseArray", <<p, pos, h.header, depth + 1>>)
      obj == Call("collectObjectListSiblings", <<p, arrayValue.pos,
                                       <<Field(h.header.key, arrayValue.val)>>, depth>>)
  IN  IF h.header.key = <<>>
      THEN errorAt(line.number, "arrays within objects must have a key", pos)
      ELSE IF ~IsOk(arrayValue) THEN arrayValue
      ELSE IF ~IsOk(obj) THEN obj
      ELSE Call("parseListItems", <<p, obj.pos, header, depth, Append(values, obj.val)>>)

\* ... the item is "key: value" or "key:".
parseListKeyValueItem(p, pos, header, depth, values, line, itemContent) ==
  LET kv == Call("splitKeyValue", <<itemContent>>)
      nested == Call("parseObject", <<p, pos, depth + 3>>)
      val == Call("decodePrimitiveToken", <<kv.rest>>)
      obj == Call("collectObjectListSiblings", <<p, pos, <<Field(kv.key, val.val)>>, depth>>)
  IN  IF kv.err # "nil" THEN errorAt(line.number, kv.err, pos)
      ELSE IF kv.rest = <<>>
      THEN IF ~IsOk(nested) THEN nested
           ELSE Call("parseListItems", <<p, nested.pos, header, depth,
                               Append(values, MapOf(<<Field(kv.key, nested.val)>>))>>)
      ELSE IF ~IsOk(val) THEN errorAt(line.number, val.err, pos)
      ELSE IF ~IsOk(obj) THEN obj
      ELSE Call("parseListItems", <<p, obj.pos, header, depth, Append(values, obj.val)>>)

parseListItems(p, pos, header, depth, values) ==
  IF pos >= Len(p.lines) THEN Call("finishList", <<p, pos, header, values>>)
  ELSE
    LET line == current(p, pos)
        next == Call("nextNonBlankIndent", <<p, pos>>)
        itemContent == TrimSpace(SliceFrom(line.content, 1))
        h == Call("tryParseHeader", <<itemContent>>)
        value == Call("decodePrimitiveToken", <<itemContent>>)
    IN  IF line.blank
        THEN IF p.cfg.strict
             THEN IF ~next.ok \/ next.indent <= depth THEN Call("finishList", <<p, pos, header, values>>)
                  ELSE errorAt(line.number, "blank line inside list array", pos)
             ELSE Call("parseListItems", <<p, pos + 1, header, depth, values>>)
        ELSE IF line.indent <= depth THEN Call("finishList", <<p, pos, header, values>>)
        ELSE IF line.indent # depth + 1
        THEN errorAt(line.number, "invalid indentation for list item", pos)
        ELSE IF ~HasPrefix(line.content, <<"-">>) THEN Call("finishList", <<p, pos, header, values>>)
        ELSE IF itemContent = <<>>
        THEN Call("parseListItems", <<p, pos + 1, header, depth, Append(values, MapOf(<<>>))>>)
        ELSE IF HasPrefix(itemContent, <<"[">>)
        THEN parseListArrayItem(p, pos + 1, header, depth, values, line, itemContent)
        ELSE IF h.err # "nil" THEN errorAt(line.number, h.err, pos + 1)
        ELSE IF h.ok THEN parseListHeaderItem(p, pos + 1, header, depth, values, line, h)
        ELSE IF Call("isKeyValue", <<itemContent>>)
        THEN parseListKeyValueItem(p, pos + 1, header, depth, values, line, itemContent)
        ELSE IF ~IsOk(value) THEN errorAt(line.number, value.err, pos + 1)
        ELSE Call("parseListItems", <<p, pos + 1, header, depth, Append(values, value.val)>>)

\* collectObjectListSiblings(obj, depth): obj is the entries of the map the
\* Go code updates in place; the result's val is the finished map.
collectObjectListSiblings(p, pos, obj, depth) ==
  IF pos >= Len(p.lines) THEN PResult(MapOf(obj), pos)
  ELSE
    LET next == current(p, pos)
        after == Call("nextNonBlankIndent", <<p, pos>>)
        h == Call("tryParseHeader", <<next.content>>)
        value == Call("parseArray", <<p, pos + 1, h.header, depth + 1>>)
        kv == Call("splitKeyValue", <<next.content>>)
        nested == Call("parseObject", <<p, pos + 1, depth + 3>>)
        prim == Call("decodePrimitiveToken", <<kv.rest>>)
    IN  IF next.blank
        THEN IF p.cfg.strict
             THEN IF ~after.ok \/ after.indent <= depth + 1 THEN PResult(MapOf(obj), pos)
                  ELSE errorAt(next.number, "blank line inside object list item", pos)
             ELSE Call("collectObjectListSiblings", <<p, pos + 1, obj, depth>>)
        ELSE IF next.indent <= depth + 1 THEN PResult(MapOf(obj), pos)
        ELSE IF next.indent # depth + 2
        THEN errorAt(next.number, "invalid indentation for object list sibling", pos)
        ELSE IF h.err # "nil" THEN errorAt(next.number, h.err, pos)
        ELSE IF h.ok
        THEN IF ~IsOk(value) THEN value
             ELSE IF h.header.key = <<>>
             THEN errorAt(next.number, "arrays within objects must have a key", value.pos)
             ELSE Call("collectObjectListSiblings", <<p, value.pos, Call("MapPut", <<obj, h.header.key, value.val>>), depth>>)
        ELSE IF kv.err # "nil" THEN errorAt(next.number, kv.err, pos)
        ELSE IF kv.rest = <<>>
        THEN IF ~IsOk(nested) THEN nested
             ELSE Call("collectObjectListSiblings", <<p, nested.pos, Call("MapPut", <<obj, kv.key, nested.val>>), depth>>)
        ELSE IF ~IsOk(prim) THEN errorAt(next.number, prim.err, pos + 1)
        ELSE Call("collectObjectListSiblings", <<p, pos + 1, Call("MapPut", <<obj, kv.key, prim.val>>), depth>>)

parseDocument(p) ==
  LET pos == Call("skipBlankLinesOutsideArrays", <<p, 0>>)
      nonBlank == Call("countRemainingNonBlank", <<p, pos>>)
      first == current(p, pos)
      h == Call("tryParseHeader", <<first.content>>)
      value == Call("decodePrimitiveToken", <<TrimSpace(first.content)>>)
  IN  IF pos >= Len(p.lines) THEN PResult(MapOf(<<>>), pos)
      ELSE IF h.err # "nil" THEN errorAt(first.number, h.err, pos)
      ELSE IF nonBlank = 1 /\ ~h.ok /\ ~Call("isKeyValue", <<first.content>>)
      THEN IF ~IsOk(value) THEN errorAt(first.number, value.err, pos)
           ELSE PResult(value.val, pos + 1)
      ELSE IF h.ok /\ first.indent = 0 /\ h.header.key = <<>>
      THEN Call("parseArray", <<p, pos + 1, h.header, 0>>)
      ELSE Call("parseObject", <<p, pos, 0>>)

\* (*Decoder).Decode: [err, line, val, pos]; val is Nil on error.
Decode(cfg, data) ==
  LET parser == Call("newParser", <<data, cfg>>)
      value == Call("parseDocument", <<parser>>)
  IN  IF parser.err # "nil" THEN errorAt(parser.line, parser.err, 0)
      ELSE IF ~IsOk(value) THEN errorAt(value.line, value.err, value.pos)
      ELSE value

Call(name, args) ==
  CASE name = "Join" -> Join(args[1], args[2])
    [] name = "Split" -> Split(args[1], args[2])
    [] name = "ReplaceCRLF" -> ReplaceCRLF(args[1])
    [] name = "StringLess" -> StringLess(args[1], args[2])
    [] name = "ValidateCharacters" -> ValidateCharacters(args[1])
    [] name = "LooksNumeric" -> LooksNumeric(args[1])
    [] name = "HasLeadingZeroDecimal" -> HasLeadingZeroDecimal(args[1])
    [] name = "NeedsQuoting" -> NeedsQuoting(args[1], args[2])
    [] name = "QuoteBody" -> QuoteBody(args[1])
    [] name = "QuoteString" -> QuoteString(args[1])
    [] name = "FormatString" -> FormatString(args[1], args[2])
    [] name = "IsValidUnquotedKey" -> IsValidUnquotedKey(args[1])
    [] name = "EncodeKey" -> EncodeKey(args[1])
    [] name = "UnquoteStep" -> UnquoteStep(args[1], args[2], args[3])
    [] name = "UnquoteString" -> UnquoteString(args[1])
    [] name = "SplitInlineStep" -> SplitInlineStep(args[1], args[2], args[3], args[4])
    [] name = "SplitInlineValues" -> SplitInlineValues(args[1], args[2])
    [] name = "LimbsCmp" -> LimbsCmp(args[1], args[2])
    [] name = "IntLess" -> IntLess(args[1], args[2])
    [] name = "PadLimbs" -> PadLimbs(args[1])
    [] name = "FormatUint" -> FormatUint(args[1])
    [] name = "FormatInt" -> FormatInt(args[1])
    [] name = "IsInt64" -> IsInt64(args[1])
    [] name = "FormatFloat" -> FormatFloat(args[1])
    [] name = "ToLower" -> ToLower(args[1])
    [] name = "StripLeadingZeros" -> StripLeadingZeros(args[1])
    [] name = "StripTrailingZeros" -> StripTrailingZeros(args[1])
    [] name = "Atoi" -> Atoi(args[1], args[2])
    [] name = "DecInc" -> DecInc(args[1])
    [] name = "DecDec" -> DecDec(args[1])
    [] name = "RoundInteger16" -> RoundInteger16(args[1])
    [] name = "RoundToFloat64" -> RoundToFloat64(args[1], args[2], args[3])
    [] name = "ParseDecimal" -> ParseDecimal(args[1])
    [] name = "ParseFloat" -> ParseFloat(args[1])
    [] name = "Float64OfInt" -> Float64OfInt(args[1])
    [] name = "normalizeFloat" -> normalizeFloat(args[1])
    [] name = "normalizeNumberString" -> normalizeNumberString(args[1])
    [] name = "InsertSorted" -> InsertSorted(args[1], args[2])
    [] name = "SortFields" -> SortFields(args[1])
    [] name = "normalizeInt" -> normalizeInt(args[1])
    [] name = "normalizeUint" -> normalizeUint(args[1])
    [] name = "normalizeBigInt" -> normalizeBigInt(args[1])
    [] name = "normalizeObjectFields" -> normalizeObjectFields(args[1], args[2])
    [] name = "normalizeMap" -> normalizeMap(args[1], args[2])
    [] name = "normalize" -> normalize(args[1], args[2])
    [] name = "normalizeSlice" -> normalizeSlice(args[1], args[2], args[3])
    [] name = "normalizeFields" -> normalizeFields(args[1], args[2], args[3])
    [] name = "formatPrimitive" -> formatPrimitive(args[1], args[2])
    [] name = "encodeKey" -> encodeKey(args[1])
    [] name = "isPrimitiveArray" -> isPrimitiveArray(args[1])
    [] name = "objField" -> objField(args[1], args[2])
    [] name = "detectTabular" -> detectTabular(args[1])
    [] name = "renderFields" -> renderFields(args[1], args[2])
    [] name = "renderHeader" -> renderHeader(args[1], args[2], args[3], args[4], args[5])
    [] name = "formatPrimitives" -> formatPrimitives(args[1], args[2])
    [] name = "encodeRows" -> encodeRows(args[1], args[2], args[3], args[4], args[5])
    [] name = "inlineLine" -> inlineLine(args[1], args[2], args[3], args[4], args[5])
    [] name = "encodeObject" -> encodeObject(args[1], args[2], args[3])
    [] name = "encodeObjectFields" -> encodeObjectFields(args[1], args[2], args[3])
    [] name = "encodeArray" -> encodeArray(args[1], args[2], args[3], args[4], args[5])
    [] name = "encodeItems" -> encodeItems(args[1], args[2], args[3], args[4], args[5])
    [] name = "encodeArrayItem" -> encodeArrayItem(args[1], args[2], args[3], args[4])
    [] name = "encodeListItem" -> encodeListItem(args[1], args[2], args[3], args[4])
    [] name = "encodeObjectListItem" -> encodeObjectListItem(args[1], args[2], args[3], args[4])
    [] name = "encodeArrayForObjectListItem" -> encodeArrayForObjectListItem(args[1], args[2], args[3], args[4], args[5])
    [] name = "encodeRoot" -> encodeRoot(args[1], args[2])
    [] name = "Marshal" -> Marshal(args[1], args[2])
    [] name = "indexOutsideStep" -> indexOutsideStep(args[1], args[2], args[3], args[4])
    [] name = "indexOutsideQuotes" -> indexOutsideQuotes(args[1], args[2])
    [] name = "isKeyValue" -> isKeyValue(args[1])
    [] name = "hasForbiddenLeadingZeros" -> hasForbiddenLeadingZeros(args[1])
    [] name = "decodePrimitiveToken" -> decodePrimitiveToken(args[1])
    [] name = "decodeKeyToken" -> decodeKeyToken(args[1])
    [] name = "splitKeyValue" -> splitKeyValue(args[1])
    [] name = "parseBracketSegment" -> parseBracketSegment(args[1])
    [] name = "decodeFields" -> decodeFields(args[1], args[2])
    [] name = "tryParseHeader" -> tryParseHeader(args[1])
    [] name = "splitLines" -> splitLines(args[1])
    [] name = "computeIndent" -> computeIndent(args[1], args[2])
    [] name = "newParserStep" -> newParserStep(args[1], args[2], args[3], args[4])
    [] name = "newParser" -> newParser(args[1], args[2])
    [] name = "skipBlankLinesOutsideArrays" -> skipBlankLinesOutsideArrays(args[1], args[2])
    [] name = "countRemainingNonBlank" -> countRemainingNonBlank(args[1], args[2])
    [] name = "nextNonBlankIndent" -> nextNonBlankIndent(args[1], args[2])
    [] name = "MapPut" -> MapPut(args[1], args[2], args[3])
    [] name = "decodeTokens" -> decodeTokens(args[1], args[2])
    [] name = "decodeRow" -> decodeRow(args[1], args[2], args[3], args[4])
    [] name = "parseObject" -> parseObject(args[1], args[2], args[3])
    [] name = "parseObjectLoop" -> parseObjectLoop(args[1], args[2], args[3], args[4])
    [] name = "parseInlineArray" -> parseInlineArray(args[1], args[2], args[3])
    [] name = "finishTabular" -> finishTabular(args[1], args[2], args[3], args[4])
    [] name = "parseTabularRows" -> parseTabularRows(args[1], args[2], args[3], args[4], args[5])
    [] name = "finishList" -> finishList(args[1], args[2], args[3], args[4])
    [] name = "parseArray" -> parseArray(args[1], args[2], args[3], args[4])
    [] name = "parseListItems" -> parseListItems(args[1], args[2], args[3], args[4], args[5])
    [] name = "collectObjectListSiblings" -> collectObjectListSiblings(args[1], args[2], args[3], args[4])
    [] name = "parseDocument" -> parseDocument(args[1])
    [] name = "Decode" -> Decode(args[1], args[2])

(***************************************************************************)
(* Inputs.  Text(str) is the text of a TLA+ string.                        *)
(***************************************************************************)
Text(str) == Loop(LAMBDA st, i : Append(st, SubSeq(str, i, i)), 1, Len(str), <<>>)

\* A host int of small magnitude.
SmallInt(n) ==
  [kind |-> "int", i |-> GoInt(n < 0, IF n = 0 THEN <<>> ELSE <<IF n < 0 THEN -n ELSE n>>)]
HostInt(kind, i) == [kind |-> kind, i |-> i]
JsonNumber(s) == [kind |-> "jsonNumber", s |-> s]
F(key, value) == Field(Text(key), value)

\* encoderOptions: defaultEncoderOptions, and settings made with WithIndent,
\* WithDocumentDelimiter, WithArrayDelimiter and WithLengthMarkers.
defaultEncoderOptions ==
  [indentSize |-> 2, documentDelimiter |-> DelimiterComma, arrayDelimiter |-> DelimiterComma,
   includeLengthMarks |-> FALSE, mapRange |-> "forward"]

EncoderSettings ==
  { defaultEncoderOptions,
    [defaultEncoderOptions EXCEPT !.mapRange = "backward"],
    [indentSize |-> 4, documentDelimiter |-> DelimiterPipe, arrayDelimiter |-> DelimiterPipe,
     includeLengthMarks |-> TRUE, mapRange |-> "forward"],
    [indentSize |-> 2, documentDelimiter |-> DelimiterComma, arrayDelimiter |-> DelimiterTab,
     includeLengthMarks |-> FALSE, mapRange |-> "backward"] }

\* decoderOptions: strict mode with the encoder's indent width.
StrictFor(cfg) == [strict |-> TRUE, indentSize |-> cfg.indentSize, documentDelim |-> DelimiterComma]
Lenient == [strict |-> FALSE, indentSize |-> 2, documentDelim |-> DelimiterComma]

VARIABLES
  v,          \* the host value given to Marshal (Nil when the run starts from a text)
  encCfg,     \* the encoder's options
  decCfg,     \* the decoder's options
  text,       \* the document given to Decode
  doc,        \* Marshal(v)
  decoded,    \* Decode(text)
  redoc,      \* Marshal(decoded value)
  redecoded,  \* Decode(redoc)
  pc          \* "value", "document", "decoded", "reencoded", "redecoded", "failed"

codecVars == <<v, encCfg, decCfg, text, doc, decoded, redoc, redecoded, pc>>

VARIABLES
  encoders,   \* the Encoders constructed so far, each [cfg, made]: its configuration,
              \* and for the record the options it was made with
  decoders,   \* the Decoders constructed so far, each [cfg, made]
  calls       \* for each caller, the frame of the call it is in

callVars == <<encoders, decoders, calls>>

VARIABLES
  structCache,  \* the process-wide sync.Map from struct type to structMeta
  lookups       \* for each caller, the frame of its cachedStructMeta call

cacheVars == <<structCache, lookups>>

vars == <<codecVars, callVars, cacheVars>>

NoText == [err |-> "none", val |-> <<>>]
NoValue == [err |-> "none", line |-> 0, val |-> Nil, pos |-> 0]

\* A run that starts from a host value and an encoder setting.
StartValue(value, cfg) ==
  /\ v = value
  /\ encCfg = cfg
  /\ decCfg = StrictFor(cfg)
  /\ text = <<>>
  /\ doc = NoText /\ decoded = NoValue /\ redoc = NoText /\ redecoded = NoValue
  /\ pc = "value"

\* A run that starts from a document and a decoder setting.
StartText(document, cfg) ==
  /\ v = Nil
  /\ encCfg = defaultEncoderOptions
  /\ decCfg = cfg
  /\ text = document
  /\ doc = NoText /\ decoded = NoValue /\ redoc = NoText /\ redecoded = NoValue
  /\ pc = "document"

\* Encoder.Marshal(v)
MarshalValue ==
  /\ pc = "value"
  /\ doc' = Call("Marshal", <<encCfg, v>>)
  /\ text' = IF IsOk(doc') THEN doc'.val ELSE text
  /\ pc' = IF IsOk(doc') THEN "document" ELSE "failed"
  /\ UNCHANGED <<v, encCfg, decCfg, decoded, redoc, redecoded>>
  /\ UNCHANGED <<callVars, cacheVars>>

\* Decoder.Decode(text)
DecodeDocument ==
  /\ pc = "document"
  /\ decoded' = Call("Decode", <<decCfg, text>>)
  /\ pc' = IF IsOk(decoded') THEN "decoded" ELSE "failed"
  /\ UNCHANGED <<v, encCfg, decCfg, text, doc, redoc, redecoded>>
  /\ UNCHANGED <<callVars, cacheVars>>

\* Encoder.Marshal(decoded value)
MarshalDecoded ==
  /\ pc = "decoded"
  /\ redoc' = Call("Marshal", <<encCfg, decoded.val>>)
  /\ pc' = IF IsOk(redoc') THEN "reencoded" ELSE "failed"
  /\ UNCHANGED <<v, encCfg, decCfg, text, doc, decoded, redecoded>>
  /\ UNCHANGED <<callVars, cacheVars>>

\* Decoder.Decode(redoc)
DecodeAgain ==
  /\ pc = "reencoded"
  /\ redecoded' = Call("Decode", <<decCfg, redoc.val>>)
  /\ pc' = IF IsOk(redecoded') THEN "redecoded" ELSE "failed"
  /\ UNCHANGED <<v, encCfg, decCfg, text, doc, decoded, redoc>>
  /\ UNCHANGED <<callVars, cacheVars>>

Next == MarshalValue \/ DecodeDocument \/ MarshalDecoded \/ DecodeAgain

(***************************************************************************)
(* Arrays of objects: up to MaxRows rows, each an ordered object over any  *)
(* of the keys id, name, role in any order, with primitive values.  All    *)
(* rows list the same keys in the same order but one row, which lists any  *)
(* keys in any order.                                                      *)
(***************************************************************************)
MaxRows == 2

RowKeys == <<Text("id"), Text("name"), Text("role")>>

KeyLists ==
  {ks \in UNION {[1..n -> 1..Len(RowKeys)] : n \in 0..Len(RowKeys)} :
     \A i, j \in 1..Len(ks) : ks[i] = ks[j] => i = j}

RowValue(r, k) ==
  CASE k = 1 -> SmallInt(r)
    [] k = 2 -> Str(<<"u">> \o Itoa(r))
    [] OTHER -> Bool(r % 2 = 1)

Row(r, ks) == Object([i \in 1..Len(ks) |-> Field(RowKeys[ks[i]], RowValue(r, ks[i]))])

InitTabular ==
  \E n \in 1..MaxRows : \E ks \in KeyLists : \E r \in 1..n : \E other \in KeyLists :
    StartValue(SliceOf([q \in 1..n |-> Row(q, IF q = r THEN other ELSE ks)]),
               defaultEncoderOptions)

(***************************************************************************)
(* Values of every shape the encoder distinguishes.                        *)
(***************************************************************************)
Num(digits, dp) == Float64(Finite(FALSE, Text(digits), dp))
List(items) == SliceOf(items)

Shapes ==
  << Nil,
     Bool(TRUE),
     Str(Text("hello world")),
     SmallInt(-42),
     Num("15", 1),
     Object(<<>>),
     Object(<<F("users", List(<<Object(<<F("id", SmallInt(1)), F("name", Str(Text("Alice")))>>),
                                Object(<<F("id", SmallInt(2)), F("name", Str(Text("Bob, jr")))>>)>>)),
              F("count", SmallInt(2))>>),
     Object(<<F("b", SmallInt(1)),
              F("a", Object(<<F("z", Str(Text("x: y"))), F("y", Nil), F("e", Object(<<>>))>>))>>),
     List(<<>>),
     List(<<SmallInt(1), Num("25", 0), Bool(FALSE), Nil>>),
     List(<<Str(Text("a,b")), Str(Text("true")), Str(Text("007")), Str(<<>>), Str(Text(" pad ")),
            Str(Text("-x")), Str(Text("a|b")), Str(Text("12")), Str(Text("q\"\\t\n")),
            Str(<<"\t">>)>>),
     List(<<Str(Text("ready")), List(<<SmallInt(1), SmallInt(2)>>), List(<<>>),
            Object(<<F("type", Str(Text("metric"))), F("values", List(<<SmallInt(1), SmallInt(2)>>)),
                     F("more", Object(<<F("x", SmallInt(1))>>))>>)>>),
     List(<<Object(<<>>)>>),
     List(<<SmallInt(1), Object(<<>>), SmallInt(3)>>),
     List(<<Object(<<F("a", Object(<<F("x", SmallInt(1))>>)), F("b", SmallInt(2))>>)>>),
     List(<<Object(<<F("a", List(<<SmallInt(1), SmallInt(2)>>)), F("b", SmallInt(2))>>)>>),
     List(<<Object(<<F("a", List(<<Object(<<F("x", SmallInt(1))>>), Object(<<F("x", SmallInt(2))>>)>>)),
                     F("b", SmallInt(2))>>)>>),
     List(<<Object(<<F("a", List(<<SmallInt(1), List(<<SmallInt(2)>>)>>)), F("b", Nil)>>)>>),
     List(<<Object(<<F("a", SmallInt(1)),
                     F("rows", List(<<Object(<<F("x", SmallInt(1))>>), Object(<<F("x", SmallInt(2))>>)>>))>>)>>),
     List(<<Object(<<F("a", SmallInt(1)), F("items", List(<<SmallInt(1), Object(<<F("x", Nil)>>)>>))>>)>>),
     List(<<Object(<<F("b", SmallInt(1)), F("a", Object(<<F("x", SmallInt(1))>>)),
                     F("c", List(<<SmallInt(1)>>))>>), SmallInt(3)>>),
     List(<<List(<<Object(<<F("k", SmallInt(1))>>), Object(<<F("k", SmallInt(2))>>)>>),
            List(<<List(<<>>), Str(Text("x"))>>)>>),
     MapOf(<<F("b", SmallInt(1)), F("k q", Str(Text("v"))), F("a", MapOf(<<F("z", Nil), F("y", Nil)>>)),
             F("", Bool(TRUE)), F("0k", List(<<MapOf(<<F("n", SmallInt(1)), F("m", SmallInt(2))>>),
                                               MapOf(<<F("m", SmallInt(3)), F("n", SmallInt(4))>>)>>))>>),
     Object(<<F("my key", SmallInt(1)), F("a.b_c", SmallInt(2)), F("x-y", List(<<SmallInt(1)>>)),
              F("[0]", List(<<Object(<<F("k:", Nil)>>), Object(<<F("k:", Nil)>>)>>))>>),
     Object(<<F("big", HostInt("int", GoInt(FALSE, <<9007, 1992, 5474, 992>>))),
              F("tiny", Num("1", -6)), F("huge", Num("1", 22)),
              F("neg", Float64(Finite(TRUE, <<>>, 0)))>>),
     Object(<<F("s", Str(<<"\f">>))>>),
     [kind |-> "chan"] >>

InitShapes == \E i \in 1..Len(Shapes) : \E cfg \in EncoderSettings : StartValue(Shapes[i], cfg)

(***************************************************************************)
(* Integers around the largest safe magnitude, as int64, uint64 and        *)
(* *big.Int, at the root, in a field and in an array; and the extremes of  *)
(* the host types.                                                         *)
(***************************************************************************)
MaxDelta == 2

\* +-(9007199254740991 + delta)
IntNear(neg, delta) == GoInt(neg, <<9007, 1992, 5474, 991 + delta>>)

MaxUint64 == GoInt(FALSE, <<1844, 6744, 737, 955, 1615>>)

HostInts ==
  {HostInt(kind, IntNear(neg, delta)) :
     kind \in {"int", "bigInt"}, neg \in BOOLEAN, delta \in (-MaxDelta)..MaxDelta}
  \cup {HostInt("uint", IntNear(FALSE, delta)) : delta \in (-MaxDelta)..MaxDelta}
  \cup {HostInt("int", MaxInt64), HostInt("int", MinInt64), HostInt("uint", MaxUint64),
        HostInt("bigInt", MaxInt64), HostInt("bigInt", MinInt64),
        HostInt("bigInt", GoInt(FALSE, <<1844, 6744, 737, 955, 1616>>)),
        HostInt("bigInt", GoInt(TRUE, <<1, 0, 0, 0, 0, 0>>)),
        HostInt("uint", GoInt(FALSE, <<>>)), HostInt("bigInt", GoInt(FALSE, <<>>)),
        HostInt("int", GoInt(TRUE, <<1>>)), HostInt("bigInt", GoInt(TRUE, <<1234, 5678>>))}

\* json.Number values
JsonNumbers ==
  {JsonNumber(Text(str)) :
     str \in {"1", "-7", "1.0", "1.50", "1e2", "0.1", "-0", "00012", "1E-3", ".5", "+3",
              "9007199254740991", "9007199254740992", "9007199254740993", "-9007199254740993",
              "9007199254740995", "123456789012345", "1e999", "abc", "", "NaN", "Infinity", "1.2.3"}}

Wrap(how, value) ==
  CASE how = "field" -> Object(<<F("n", value)>>)
    [] how = "item" -> List(<<value>>)
    [] OTHER -> value

InitNumbers ==
  \E n \in HostInts \cup JsonNumbers : \E how \in {"root", "field", "item"} :
    StartValue(Wrap(how, n), defaultEncoderOptions)

(***************************************************************************)
(* Documents.                                                              *)
(***************************************************************************)
Documents ==
  { "", "hello", "42", "a: 1\nb: 2", "b: 1\na: 2", "z: 1\nm:\n  y: true\n  x: null\na: 3",
    "[2]: 1,2", "[0]:", "k[#2|]: a|b", "[1]:\n  -", "[1]:\n  - {}", "[3]: 1,2",
    "users[2]{name,id}:\n  Ann,1\n  Bob,2\ncount: 2", "users[2]{id,name}:\n  1,Ann",
    "[2]:\n  - b: 1\n    a: 2\n  - c: 3", "[1]:\n  - b:\n      y: 1\n      x: 2\n    a: 1",
    "[2]:\n  - k[2]: 1,2\n    j: 0\n  - [1]: x", "a: \"x\\ny\"\nb: 007\nc: -0\nd: 1e3\ne: \"\"",
    "a:\n   b: 1", "a: 1\n\n\nb: 2", "a: 1\na: 2", "a:\n\tb: 1", "[2]:\n  - 1\n\n  - 2",
    "a: 1\n  b: 2", "k[2: 1", "k[x]: 1", ": 1", "a: \"\\q\"", "a b: 1", "a: \"\f\"",
    "rows[2]{x,y}:\n  1,2\n  3\n", "\n\nb: 1\r\na: 2\n" }

InitDocuments ==
  \E str \in Documents : \E cfg \in {StrictFor(defaultEncoderOptions), Lenient} :
    StartText(Text(str), cfg)

(***************************************************************************)
(* Strings that hold a control character other than HTAB, LF, CR, in every *)
(* place where the encoder writes a string or a key.                       *)
(***************************************************************************)
ControlStrings ==
  { <<"\f">>, <<"a", "\f", "b">>, <<"x", ",", "\f">>, <<"\f", "\t">> }

ControlPlaces(s) ==
  << Str(s),
     Object(<<F("k", Str(s))>>),
     Object(<<Field(s, SmallInt(1))>>),
     Object(<<F("o", Object(<<Field(s, Nil)>>))>>),
     Object(<<Field(s, List(<<>>))>>),
     Object(<<Field(s, List(<<SmallInt(1), SmallInt(2)>>))>>),
     Object(<<Field(s, List(<<Object(<<F("x", SmallInt(1))>>)>>))>>),
     MapOf(<<Field(s, Nil)>>),
     MapOf(<<F("k", Str(s))>>),
     List(<<Str(Text("a")), Str(s)>>),
     List(<<Object(<<F("id", SmallInt(1)), F("n", Str(Text("a")))>>),
            Object(<<F("id", SmallInt(2)), F("n", Str(s))>>)>>),
     List(<<Object(<<F("id", SmallInt(1)), Field(s, Nil)>>),
            Object(<<Field(s, Nil), F("id", SmallInt(2))>>)>>),
     List(<<Object(<<F("a", Str(s)), F("b", List(<<>>))>>)>>),
     List(<<Object(<<F("a", List(<<SmallInt(1)>>)), F("b", Str(s))>>)>>),
     List(<<Object(<<Field(s, List(<<SmallInt(1)>>))>>)>>),
     List(<<Object(<<Field(s, Object(<<F("x", SmallInt(1))>>))>>)>>),
     List(<<Object(<<F("a", SmallInt(1)), Field(s, Object(<<>>))>>)>>),
     List(<<Object(<<F("a", List(<<Object(<<F("x", Str(s))>>), Object(<<F("x", Nil)>>)>>))>>)>>),
     List(<<SmallInt(1), List(<<Str(s)>>)>>),
     List(<<Str(s), Object(<<>>)>>) >>

InitControl ==
  \E s \in ControlStrings : \E i \in 1..Len(ControlPlaces(s)) : \E cfg \in EncoderSettings :
    StartValue(ControlPlaces(s)[i], cfg)

(***************************************************************************)
(* Strings that hold a delimiter character, in every value slot of an      *)
(* array, under every choice of array delimiter and document delimiter.    *)
(***************************************************************************)
Delimiters == {DelimiterComma, DelimiterTab, DelimiterPipe}

DelimiterSettings ==
  {[defaultEncoderOptions EXCEPT !.arrayDelimiter = a, !.documentDelimiter = d] :
     a \in Delimiters, d \in Delimiters}

DelimitedStrings ==
  { <<"a", ",", "b">>, <<"a", "|", "b">>, <<"a", "\t", "b">>, <<",">>, <<"|">>,
    <<"x", ",", "y", "|", "z">> }

DelimitedPlaces(s) ==
  << List(<<Str(s), Str(Text("z"))>>),
     List(<<SmallInt(1), Str(s)>>),
     Object(<<F("k", List(<<Str(Text("z")), Str(s), Nil>>))>>),
     List(<<Object(<<F("id", SmallInt(1)), F("n", Str(s))>>),
            Object(<<F("id", SmallInt(2)), F("n", Str(Text("z")))>>)>>),
     Object(<<F("rows", List(<<Object(<<F("n", Str(Text("z"))), F("id", SmallInt(1))>>),
                               Object(<<F("n", Str(s)), F("id", SmallInt(2))>>)>>))>>),
     List(<<Str(s), List(<<Str(s), SmallInt(1)>>)>>),
     List(<<Object(<<F("n", Str(s))>>), Object(<<F("m", Str(s)), F("n", SmallInt(1))>>)>>),
     List(<<Object(<<F("n", Str(s)), F("t", List(<<Str(s), Str(Text("z"))>>))>>)>>) >>

InitDelimited ==
  \E s \in DelimitedStrings : \E i \in 1..Len(DelimitedPlaces(s)) : \E cfg \in DelimiterSettings :
    StartValue(DelimitedPlaces(s)[i], cfg)

(***************************************************************************)
(* Documents with one array of declared length n and m elements present,   *)
(* in each layout and at each place an array header can stand.             *)
(***************************************************************************)
MaxLen == 2

Layouts == {"inline", "tabular", "list"}
Places == {"root", "key", "nested", "item", "first"}

\* The i-th element, as a host value.
Element(layout, i) ==
  IF layout = "tabular"
  THEN Object(<<F("a", SmallInt(i)), F("b", Str(Text("x")))>>)
  ELSE SmallInt(i)

\* The lines of the array: the header after `prefix' at level d, and the
\* elements, on the header's line or one level below it.
ArrayLines(layout, n, m, prefix, d) ==
  LET head == Spaces(2 * d) \o prefix \o <<"[">> \o Itoa(n) \o <<"]">>
      pad == Spaces(2 * (d + 1))
  IN  CASE layout = "inline" ->
             <<head \o <<":">>
               \o (IF m = 0 THEN <<>> ELSE <<" ">> \o Join([i \in 1..m |-> Itoa(i)], <<",">>))>>
        [] layout = "tabular" ->
             <<head \o Text("{a,b}:")>> \o [i \in 1..m |-> pad \o Itoa(i) \o Text(",x")]
        [] OTHER ->
             <<head \o <<":">>>> \o [i \in 1..m |-> pad \o Text("- ") \o Itoa(i)]

ArrayDocument(layout, n, m, place) ==
  Join(CASE place = "root" -> ArrayLines(layout, n, m, <<>>, 0)
         [] place = "key" -> ArrayLines(layout, n, m, Text("k"), 0) \o <<Text("z: 1")>>
         [] place = "nested" -> <<Text("o:")>> \o ArrayLines(layout, n, m, Text("k"), 1)
         [] place = "item" -> <<Text("[1]:")>> \o ArrayLines(layout, n, m, Text("- "), 1)
         [] OTHER -> <<Text("[1]:")>> \o ArrayLines(layout, n, m, Text("- k"), 1),
       <<"\n">>)

\* The host value of which the document with m elements is a rendering.
ArrayValue(layout, m, place) ==
  LET arr == List([i \in 1..m |-> Element(layout, i)])
  IN  CASE place = "root" -> arr
        [] place = "key" -> Object(<<F("k", arr), F("z", SmallInt(1))>>)
        [] place = "nested" -> Object(<<F("o", Object(<<F("k", arr)>>))>>)
        [] place = "item" -> List(<<arr>>)
        [] OTHER -> List(<<Object(<<F("k", arr)>>)>>)

\* Every such document, with the lengths it was made from.
ArrayCases ==
  {[layout |-> layout, n |-> n, m |-> m, place |-> place,
    text |-> ArrayDocument(layout, n, m, place)] :
     layout \in Layouts, n \in 0..MaxLen, m \in 0..MaxLen, place \in Places}

InitLengths ==
  \E c \in ArrayCases : \E cfg \in {StrictFor(defaultEncoderOptions), Lenient} :
    StartText(c.text, cfg)

(***************************************************************************)
(* Documents with one blank line put after line k of a document with an    *)
(* array whose header is line `first' and whose last line is line `last'.  *)
(***************************************************************************)
ArrayBodies ==
  { [lines |-> <<"[2]:", "  - 1", "  - 2">>, first |-> 1, last |-> 3],
    [lines |-> <<"k[2]{a,b}:", "  1,x", "  2,y", "z: 1">>, first |-> 1, last |-> 3],
    [lines |-> <<"[2]:", "  - a: 1", "    b: 2", "  - a: 3", "    b: 4">>, first |-> 1, last |-> 5],
    [lines |-> <<"[1]:", "  - a: 1", "    o:", "      x: 1", "      y: 2", "    c: 3">>,
     first |-> 1, last |-> 6],
    [lines |-> <<"[2]:", "  - [2]:", "    - 1", "    - 2", "  - 5">>, first |-> 1, last |-> 5],
    [lines |-> <<"o:", "  k[2]:", "    - 1", "    - 2", "  z: 1", "y: 2">>, first |-> 2, last |-> 4],
    [lines |-> <<"[1]:", "  - a:", "      x: 1", "      y: 2">>, first |-> 1, last |-> 4],
    [lines |-> <<"[1]:", "  - a: 1", "    k[2]: 1,2">>, first |-> 1, last |-> 3] }

BlankLines == {<<>>, <<" ", " ">>}

\* The text of the lines with `blank' put after line k (before the first
\* line when k = 0).
WithBlankLine(lines, k, blank) ==
  Join([i \in 1..(Len(lines) + 1) |->
          IF i <= k THEN Text(lines[i]) ELSE IF i = k + 1 THEN blank ELSE Text(lines[i - 1])],
       <<"\n">>)

BlankCases ==
  UNION {{[base |-> Join([i \in 1..Len(b.lines) |-> Text(b.lines[i])], <<"\n">>),
           inside |-> b.first <= k /\ k < b.last,
           text |-> WithBlankLine(b.lines, k, blank)] :
            k \in 0..Len(b.lines), blank \in BlankLines} : b \in ArrayBodies}

InitBlanks ==
  \E c \in {d \in BlankCases : d.text # d.base} :
    \E cfg \in {StrictFor(defaultEncoderOptions), Lenient} :
      StartText(c.text, cfg)

(***************************************************************************)
(* Tabular rows with w tokens under a header with two fields.              *)
(***************************************************************************)
RowDocument(w) ==
  Text("[1]{a,b}:\n  ") \o Join([i \in 1..w |-> Itoa(i)], <<",">>)

\* The row read with the tokens there are: the first min(w, 2) fields.
RowRead(w) ==
  List(<<Object([i \in 1..(IF w < 2 THEN w ELSE 2) |->
                   Field(<<<<"a">>, <<"b">>>>[i], SmallInt(i))])>>)

InitWidths ==
  \E w \in 1..(MaxLen + 1) : \E cfg \in {StrictFor(defaultEncoderOptions), Lenient} :
    StartText(RowDocument(w), cfg)

(***************************************************************************)
(* Documents whose third line has leading whitespace of up to MaxIndent    *)
(* spaces and tabs, read with an indent width of 2 or 4.                   *)
(***************************************************************************)
MaxIndent == 4

IndentWidths == {2, 4}

Whitespace == UNION {[1..k -> {" ", "\t"}] : k \in 0..MaxIndent}

IndentDocument(ws, w) ==
  Text("a:\n") \o Spaces(w) \o Text("c:\n") \o ws \o Text("b: 1")

\* The value of the document when its third line is at the given level:
\* none when the level is deeper than the line above allows.
AtLevel(level) ==
  CASE level = 0 -> Object(<<F("a", Object(<<F("c", Object(<<>>))>>)), F("b", SmallInt(1))>>)
    [] level = 1 -> Object(<<F("a", Object(<<F("c", Object(<<>>)), F("b", SmallInt(1))>>))>>)
    [] level = 2 -> Object(<<F("a", Object(<<F("c", Object(<<F("b", SmallInt(1))>>))>>))>>)
    [] OTHER -> Nil

IndentCases ==
  {[ws |-> ws, w |-> w, text |-> IndentDocument(ws, w)] : ws \in Whitespace, w \in IndentWidths}

\* A blank line that holds a tab, before a line that is badly indented.
BlankThenIndented == {Text("\t\n   b: 1"), Text("a: 1\n  \t\n\tb: 2"), Text("a:\n \t\n b: 2")}

\* The encoder that writes the decoded value again has the decoder's width.
InitIndents ==
  \/ \E c \in IndentCases : \E strict \in BOOLEAN :
        /\ v = Nil
        /\ encCfg = [defaultEncoderOptions EXCEPT !.indentSize = c.w]
        /\ decCfg = [strict |-> strict, indentSize |-> c.w, documentDelim |-> DelimiterComma]
        /\ text = c.text
        /\ doc = NoText /\ decoded = NoValue /\ redoc = NoText /\ redecoded = NoValue
        /\ pc = "document"
  \/ \E t \in BlankThenIndented : \E cfg \in {StrictFor(defaultEncoderOptions), Lenient} :
        StartText(t, cfg)

(***************************************************************************)
(* Documents of every root form: one line or several, with and without a   *)
(* header, with and without a colon, with blank lines around.              *)
(***************************************************************************)
RootDocuments ==
  { "hello", "42", "true", "null", "\"a: b\"", "a:b", ": 1", ":", ":x", "[2]: 1,2", "[0]:",
    "k[1]: x", "  [1]: x", "  hello", "x[", "[2] 1", "\"open", "a: 1", "a:", "007", "-x",
    "hello\nworld", "\n\nhello\n\n", "hello\n\n  ", "\n[2]: 1,2", "[1]:\n  - 1",
    "[1]: 1\nb: 2", "a: 1\n[1]: 2", "x\n[1]: 2", "\n\n", "  \n", "[1]{a}:\n  1" }

InitRoots ==
  \E str \in RootDocuments : \E cfg \in {StrictFor(defaultEncoderOptions), Lenient} :
    StartText(Text(str), cfg)

(***************************************************************************)
(* Tokens that begin with a zero, as the value of a document, of a field,  *)
(* of an inline item, of a list item and of a tabular cell.                *)
(***************************************************************************)
ZeroTokens ==
  { "0", "-0", "00", "01", "007", "-01", "-00", "-007", "0.5", "-0.5", "0e1", "00.5", "01.5",
    "-01.5", "01e2", "00e0", "0a", "00a", "10", "-10", "0.", "01." }

ZeroDocument(token, how) ==
  CASE how = "root" -> token
    [] how = "field" -> Text("n: ") \o token
    [] how = "item" -> Text("[2]: x,") \o token
    [] how = "listed" -> Text("[1]:\n  - ") \o token
    [] OTHER -> Text("[1]{a,n}:\n  x,") \o token

\* The value of the document, given the value of the token.
ZeroValue(value, how) ==
  CASE how = "root" -> value
    [] how = "field" -> MapOf(<<F("n", value)>>)
    [] how = "item" -> SliceOf(<<Str(Text("x")), value>>)
    [] how = "listed" -> SliceOf(<<value>>)
    [] OTHER -> SliceOf(<<MapOf(<<F("a", Str(Text("x"))), F("n", value)>>)>>)

TokenPlaces == {"root", "field", "item", "listed", "cell"}

ZeroCases ==
  {[token |-> Text(str), how |-> how, text |-> ZeroDocument(Text(str), how)] :
     str \in ZeroTokens, how \in TokenPlaces}

InitZeros ==
  \E c \in ZeroCases : \E cfg \in {StrictFor(defaultEncoderOptions), Lenient} :
    StartText(c.text, cfg)

(***************************************************************************)
(* Arrays of every layout, keyed and unkeyed, nested in objects and in     *)
(* lists, under every array delimiter, with and without length markers.    *)
(***************************************************************************)
HeaderSettings ==
  {[defaultEncoderOptions EXCEPT !.arrayDelimiter = a, !.includeLengthMarks = marks] :
     a \in Delimiters, marks \in BOOLEAN}

HeaderValues ==
  << List(<<>>),
     List(<<SmallInt(1), Str(Text("a b")), Nil>>),
     List(<<Object(<<F("id", SmallInt(1)), F("a b", Str(Text("x")))>>),
            Object(<<F("a b", Str(Text("y"))), F("id", SmallInt(2))>>)>>),
     List(<<Object(<<F("x|y", SmallInt(1)), F("z,w", Nil)>>)>>),
     List(<<SmallInt(1), Object(<<F("a", SmallInt(1))>>)>>),
     List(<<List(<<SmallInt(1), SmallInt(2)>>), List(<<>>),
            List(<<Object(<<F("k", Nil)>>), Object(<<F("k", Bool(TRUE))>>)>>)>>),
     Object(<<F("tags", List(<<Str(Text("a")), Str(Text("b"))>>)), F("my key", List(<<>>)),
              F("o", Object(<<F("rows", List(<<Object(<<F("id", SmallInt(1))>>),
                                               Object(<<F("id", SmallInt(2))>>)>>))>>))>>),
     List(<<Object(<<F("k", List(<<SmallInt(1), SmallInt(2)>>)), F("n", SmallInt(1))>>),
            Object(<<F("n", SmallInt(2)), F("k", List(<<Str(Text("x"))>>))>>)>>) >>

InitHeaders ==
  \E i \in 1..Len(HeaderValues) : \E cfg \in HeaderSettings : StartValue(HeaderValues[i], cfg)

(***************************************************************************)
(* Documents of one or two lines that hold white space only.               *)
(***************************************************************************)
BlankLineTexts == {"", " ", "  ", "   ", "\t", "  \t", "\f", " \f", "\r"}

BlankDocuments ==
  {Text(a) : a \in BlankLineTexts \ {""}}
  \cup {Text(a) \o <<"\n">> \o Text(b) : a, b \in BlankLineTexts}

InitEmpty ==
  \E t \in BlankDocuments : \E cfg \in {StrictFor(defaultEncoderOptions), Lenient} :
    StartText(t, cfg)

(***************************************************************************)
(* Encoders and Decoders shared by concurrent callers.  A caller's call is  *)
(* a frame of its own; the steps of the calls interleave.  The options are  *)
(* those of options.go, each a function that changes the encoderOptions or  *)
(* decoderOptions it is given.                                              *)
(***************************************************************************)
Callers == {"c1", "c2"}

Idle == [op |-> "idle"]

\* No caller is in a call, and nothing has been constructed.
NoCalls == encoders = <<>> /\ decoders = <<>> /\ calls = [c \in Callers |-> Idle]

\* The cache is empty and no caller is looking a type up.
EmptyCache == [t \in {} |-> Nil]
NoLookups == structCache = EmptyCache /\ lookups = [c \in Callers |-> Idle]

defaultDecoderOptions == [indentSize |-> 2, strict |-> TRUE, documentDelim |-> DelimiterComma]

WithIndent(spaces, o) == IF spaces > 0 THEN [o EXCEPT !.indentSize = spaces] ELSE o

WithDocumentDelimiter(delimiter, o) ==
  IF delimiter \in {DelimiterComma, DelimiterTab, DelimiterPipe}
  THEN [o EXCEPT !.documentDelimiter = delimiter] ELSE o

WithArrayDelimiter(delimiter, o) ==
  IF delimiter \in {DelimiterComma, DelimiterTab, DelimiterPipe}
  THEN [o EXCEPT !.arrayDelimiter = delimiter] ELSE o

WithLengthMarkers(enabled, o) == [o EXCEPT !.includeLengthMarks = enabled]

WithStrictMode(strict, o) == [o EXCEPT !.strict = strict]

WithDecoderIndent(spaces, o) == IF spaces > 0 THEN [o EXCEPT !.indentSize = spaces] ELSE o

WithDecoderDocumentDelimiter(delimiter, o) ==
  IF delimiter \in {DelimiterComma, DelimiterTab, DelimiterPipe}
  THEN [o EXCEPT !.documentDelim = delimiter] ELSE o

Option(name, arg) == [name |-> name, arg |-> arg]

\* opt(&cfg)
ApplyOption(opt, o) ==
  CASE opt.name = "WithIndent" -> WithIndent(opt.arg, o)
    [] opt.name = "WithDocumentDelimiter" -> WithDocumentDelimiter(opt.arg, o)
    [] opt.name = "WithArrayDelimiter" -> WithArrayDelimiter(opt.arg, o)
    [] opt.name = "WithLengthMarkers" -> WithLengthMarkers(opt.arg, o)
    [] opt.name = "WithStrictMode" -> WithStrictMode(opt.arg, o)
    [] opt.name = "WithDecoderIndent" -> WithDecoderIndent(opt.arg, o)
    [] opt.name = "WithDecoderDocumentDelimiter" -> WithDecoderDocumentDelimiter(opt.arg, o)

EncoderOptionLists ==
  { <<Option("WithArrayDelimiter", DelimiterPipe), Option("WithLengthMarkers", TRUE)>>,
    <<Option("WithIndent", 4), Option("WithIndent", 0), Option("WithDocumentDelimiter", ";")>> }

DecoderOptionLists ==
  { <<Option("WithStrictMode", FALSE), Option("WithDecoderDocumentDelimiter", DelimiterPipe)>>,
    <<Option("WithDecoderIndent", 4)>> }

\* The values and the documents of the calls: a value whose document depends
\* on every option and one the encoder rejects; a document whose reading
\* depends on the mode and on the width.
CallValues ==
  { Object(<<F("k", Object(<<F("n", Nil)>>)), F("l", List(<<Str(Text("a|b")), SmallInt(1)>>))>>),
    Str(Text("\f")) }

CallDocuments == {Text("a:\n    b: 1")}

\* The Encoders and Decoders constructed or under construction.
MaxCodecs == 2

Constructing == {c \in Callers : calls[c].op \in {"NewEncoder", "NewDecoder"}}

\* A faulty encodeState, which holds the default configuration.
newEncodeStateDefault(cfg) == [cfg |-> defaultEncoderOptions, lines |-> <<>>]

\* state := &encodeState{cfg: e.cfg}
newEncodeState(cfg) == [cfg |-> cfg, lines |-> <<>>]

\* NewEncoder(opts...): cfg := defaultEncoderOptions()
NewEncoderCall ==
  \E c \in Callers : \E opts \in EncoderOptionLists :
    /\ calls[c] = Idle
    /\ Len(encoders) + Len(decoders) + Cardinality(Constructing) < MaxCodecs
    /\ calls' = [calls EXCEPT ![c] = [op |-> "NewEncoder", opts |-> opts, cfg |-> defaultEncoderOptions, i |-> 1]]
    /\ UNCHANGED <<encoders, decoders, codecVars, cacheVars>>

\* NewDecoder(opts...): cfg := defaultDecoderOptions()
NewDecoderCall ==
  \E c \in Callers : \E opts \in DecoderOptionLists :
    /\ calls[c] = Idle
    /\ Len(encoders) + Len(decoders) + Cardinality(Constructing) < MaxCodecs
    /\ calls' = [calls EXCEPT ![c] = [op |-> "NewDecoder", opts |-> opts, cfg |-> defaultDecoderOptions, i |-> 1]]
    /\ UNCHANGED <<encoders, decoders, codecVars, cacheVars>>

\* for _, opt := range opts { opt(&cfg) }: one option
ApplyNextOption ==
  \E c \in Callers :
    /\ calls[c].op \in {"NewEncoder", "NewDecoder"}
    /\ calls[c].i <= Len(calls[c].opts)
    /\ calls' = [calls EXCEPT ![c].cfg = ApplyOption(calls[c].opts[calls[c].i], @), ![c].i = @ + 1]
    /\ UNCHANGED <<encoders, decoders, codecVars, cacheVars>>

\* return &Encoder{cfg: cfg}
NewEncoderReturn ==
  \E c \in Callers :
    /\ calls[c].op = "NewEncoder"
    /\ calls[c].i > Len(calls[c].opts)
    /\ encoders' = Append(encoders, [cfg |-> calls[c].cfg, made |-> calls[c].opts])
    /\ calls' = [calls EXCEPT ![c] = Idle]
    /\ UNCHANGED <<decoders, codecVars, cacheVars>>

\* return &Decoder{cfg: cfg}
NewDecoderReturn ==
  \E c \in Callers :
    /\ calls[c].op = "NewDecoder"
    /\ calls[c].i > Len(calls[c].opts)
    /\ decoders' = Append(decoders, [cfg |-> calls[c].cfg, made |-> calls[c].opts])
    /\ calls' = [calls EXCEPT ![c] = Idle]
    /\ UNCHANGED <<encoders, codecVars, cacheVars>>

\* The Encoder of a Marshal call: a shared one, or for the package's
\* Marshal(v) the temporary NewEncoder().
EncoderOf(frame) ==
  IF frame.enc = 0 THEN [cfg |-> defaultEncoderOptions, made |-> <<>>] ELSE encoders[frame.enc]

\* e.Marshal(v), and Marshal(v) of the package
MarshalCall ==
  \E c \in Callers : \E e \in 0..Len(encoders) : \E val \in CallValues :
    /\ calls[c] = Idle
    /\ calls' = [calls EXCEPT ![c] = [op |-> "Marshal", enc |-> e, arg |-> val, step |-> "normalize"]]
    /\ UNCHANGED <<encoders, decoders, codecVars, cacheVars>>

\* The caller's frame after normalize has returned.
Normalized(frame, normalized) ==
  IF ~IsOk(normalized)
  THEN [op |-> "Marshal", enc |-> frame.enc, arg |-> frame.arg, step |-> "returned",
        result |-> normalized]
  ELSE [op |-> "Marshal", enc |-> frame.enc, arg |-> frame.arg, step |-> "encode",
        normalized |-> normalized.val]

\* normalized, err := normalize(v, e.cfg)
MarshalNormalize ==
  \E c \in Callers :
    /\ calls[c].op = "Marshal" /\ calls[c].step = "normalize"
    /\ calls' = [calls EXCEPT ![c] =
                   Normalized(@, Call("normalize", <<calls[c].arg, EncoderOf(calls[c]).cfg>>))]
    /\ UNCHANGED <<encoders, decoders, codecVars, cacheVars>>

\* The caller's frame after state.encodeRoot has returned.
Encoded(frame, state, lines) ==
  IF ~IsOk(lines)
  THEN [op |-> "Marshal", enc |-> frame.enc, arg |-> frame.arg, step |-> "returned",
        result |-> lines]
  ELSE [op |-> "Marshal", enc |-> frame.enc, arg |-> frame.arg, step |-> "join",
        state |-> [state EXCEPT !.lines = lines.val]]

\* state := &encodeState{cfg: e.cfg}; state.encodeRoot(normalized)
MarshalEncode ==
  \E c \in Callers :
    /\ calls[c].op = "Marshal" /\ calls[c].step = "encode"
    /\ calls' = [calls EXCEPT ![c] =
                   Encoded(@, newEncodeState(EncoderOf(calls[c]).cfg),
                           Call("encodeRoot", <<newEncodeState(EncoderOf(calls[c]).cfg).cfg,
                                                calls[c].normalized>>))]
    /\ UNCHANGED <<encoders, decoders, codecVars, cacheVars>>

\* output := strings.Join(state.lines, "\n"); return []byte(output), nil
MarshalJoin ==
  \E c \in Callers :
    /\ calls[c].op = "Marshal" /\ calls[c].step = "join"
    /\ calls' = [calls EXCEPT ![c] =
                   [op |-> "Marshal", enc |-> @.enc, arg |-> @.arg, step |-> "returned",
                    result |-> Ok(Join(@.state.lines, <<"\n">>))]]
    /\ UNCHANGED <<encoders, decoders, codecVars, cacheVars>>

\* d.Decode(data)
DecodeCall ==
  \E c \in Callers : \E d \in 1..Len(decoders) : \E data \in CallDocuments :
    /\ calls[c] = Idle
    /\ calls' = [calls EXCEPT ![c] = [op |-> "Decode", dec |-> d, arg |-> data, step |-> "newParser"]]
    /\ UNCHANGED <<encoders, decoders, codecVars, cacheVars>>

\* The caller's frame after newParser has returned.
Parsed(frame, parser) ==
  IF parser.err # "nil"
  THEN [op |-> "Decode", dec |-> frame.dec, arg |-> frame.arg, step |-> "returned",
        result |-> errorAt(parser.line, parser.err, 0)]
  ELSE [op |-> "Decode", dec |-> frame.dec, arg |-> frame.arg, step |-> "parseDocument",
        parser |-> parser]

\* parser, err := newParser(string(data), d.cfg)
DecodeNewParser ==
  \E c \in Callers :
    /\ calls[c].op = "Decode" /\ calls[c].step = "newParser"
    /\ calls' = [calls EXCEPT ![c] =
                   Parsed(@, Call("newParser", <<calls[c].arg, decoders[calls[c].dec].cfg>>))]
    /\ UNCHANGED <<encoders, decoders, codecVars, cacheVars>>

\* The caller's frame after parseDocument has returned.
Valued(frame, value) ==
  [op |-> "Decode", dec |-> frame.dec, arg |-> frame.arg, step |-> "returned",
   result |-> IF ~IsOk(value) THEN errorAt(value.line, value.err, value.pos) ELSE value]

\* value, err := parser.parseDocument()
DecodeParseDocument ==
  \E c \in Callers :
    /\ calls[c].op = "Decode" /\ calls[c].step = "parseDocument"
    /\ calls' = [calls EXCEPT ![c] = Valued(@, Call("parseDocument", <<calls[c].parser>>))]
    /\ UNCHANGED <<encoders, decoders, codecVars, cacheVars>>

\* The caller takes the result and is free for its next call.
CallReturned ==
  \E c \in Callers :
    /\ calls[c].op \in {"Marshal", "Decode"} /\ calls[c].step = "returned"
    /\ calls' = [calls EXCEPT ![c] = Idle]
    /\ UNCHANGED <<encoders, decoders, codecVars, cacheVars>>

\* The codec's own run stands still while the callers run.
NoRun ==
  /\ v = Nil /\ encCfg = defaultEncoderOptions /\ decCfg = defaultDecoderOptions /\ text = <<>>
  /\ doc = NoText /\ decoded = NoValue /\ redoc = NoText /\ redecoded = NoValue
  /\ pc = "idle"

InitCalls == NoRun /\ NoCalls /\ NoLookups

NextCalls ==
  \/ NewEncoderCall \/ NewDecoderCall \/ ApplyNextOption \/ NewEncoderReturn \/ NewDecoderReturn
  \/ MarshalCall \/ MarshalNormalize \/ MarshalEncode \/ MarshalJoin
  \/ DecodeCall \/ DecodeNewParser \/ DecodeParseDocument \/ CallReturned

SpecCalls == InitCalls /\ [][NextCalls]_vars

(***************************************************************************)
(* The struct metadata cache.  A struct type is its name, which is its     *)
(* identity, and its fields, each [Name, exported, tag]: the field's name,  *)
(* IsExported() and Tag.Get("toon").  structCache is a sync.Map, whose Load *)
(* and Store are atomic.                                                   *)
(***************************************************************************)
StructField(name, exported, tag) == [Name |-> Text(name), exported |-> exported, tag |-> Text(tag)]

StructTypes ==
  [ profile |-> << StructField("ID", TRUE, "id"), StructField("Name", TRUE, "name,omitempty"),
                   StructField("secret", FALSE, "hidden"), StructField("Skip", TRUE, "-"),
                   StructField("Plain", TRUE, ""), StructField("Opt", TRUE, ",omitempty,") >>,
    pair    |-> << StructField("A", TRUE, "x"), StructField("B", TRUE, "x,omitempty") >>,
    empty   |-> << >> ]

\* parseStructTag returns (name, options) as [name, options], options the
\* set of the keys of the map.
parseStructTag(tag) ==
  LET parts == Split(tag, ",")
  IN  IF tag = <<>> THEN [name |-> <<>>, options |-> {}]
      ELSE [name |-> parts[1],
            options |-> {parts[i] : i \in 2..Len(parts)} \ {<<>>}]

structFieldMeta(name, omitEmpty, index) == [name |-> name, omitEmpty |-> omitEmpty, index |-> index]

\* buildStructMeta: the loop over the fields keeps [fields, lookup].
buildStructMetaStep(t, st, i) ==
  LET sf == StructTypes[t][i + 1]
      tag == sf.tag
      parsed == parseStructTag(tag)
      name == IF parsed.name = <<>> THEN sf.Name ELSE parsed.name
      meta == structFieldMeta(name, Text("omitempty") \in parsed.options, <<i>>)
  IN  IF ~sf.exported THEN st
      ELSE IF tag = <<"-">> THEN st
      ELSE [fields |-> Append(st.fields, meta), lookup |-> MapPut(st.lookup, name, meta)]

buildStructMeta(t) ==
  Loop(LAMBDA st, i : buildStructMetaStep(t, st, i), 0, Len(StructTypes[t]) - 1,
       [fields |-> <<>>, lookup |-> <<>>])

\* sync.Map.Load returns (value, ok) as [value, ok].
MapLoad(m, key) ==
  IF key \in DOMAIN m THEN [value |-> m[key], ok |-> TRUE] ELSE [value |-> Nil, ok |-> FALSE]

\* A faulty Store, which keeps the new entry only.
MapStoreAlone(m, key, value) == key :> value

\* sync.Map.Store
MapStore(m, key, value) == (key :> value) @@ m

\* cachedStructMeta(t) is called.
LookupCall ==
  \E c \in Callers : \E t \in DOMAIN StructTypes :
    /\ lookups[c] = Idle
    /\ lookups' = [lookups EXCEPT ![c] = [op |-> "cachedStructMeta", t |-> t, step |-> "Load"]]
    /\ UNCHANGED <<structCache, codecVars, callVars>>

\* if meta, ok := structCache.Load(t); ok { return meta.(structMeta) }
LookupLoad ==
  \E c \in Callers :
    /\ lookups[c].op = "cachedStructMeta" /\ lookups[c].step = "Load"
    /\ LET loaded == MapLoad(structCache, lookups[c].t)
       IN  lookups' = [lookups EXCEPT ![c] =
                         IF loaded.ok
                         THEN [op |-> "cachedStructMeta", t |-> @.t, step |-> "returned",
                               meta |-> loaded.value, hit |-> TRUE]
                         ELSE [op |-> "cachedStructMeta", t |-> @.t, step |-> "build"]]
    /\ UNCHANGED <<structCache, codecVars, callVars>>

\* meta := buildStructMeta(t)
LookupBuild ==
  \E c \in Callers :
    /\ lookups[c].op = "cachedStructMeta" /\ lookups[c].step = "build"
    /\ lookups' = [lookups EXCEPT ![c] =
                     [op |-> "cachedStructMeta", t |-> @.t, step |-> "Store",
                      meta |-> buildStructMeta(@.t)]]
    /\ UNCHANGED <<structCache, codecVars, callVars>>

\* structCache.Store(t, meta); return meta
LookupStore ==
  \E c \in Callers :
    /\ lookups[c].op = "cachedStructMeta" /\ lookups[c].step = "Store"
    /\ structCache' = MapStore(structCache, lookups[c].t, lookups[c].meta)
    /\ lookups' = [lookups EXCEPT ![c] =
                     [op |-> "cachedStructMeta", t |-> @.t, step |-> "returned",
                      meta |-> @.meta, hit |-> FALSE]]
    /\ UNCHANGED <<codecVars, callVars>>

\* The caller takes the metadata and is free for its next call.
LookupReturned ==
  \E c \in Callers :
    /\ lookups[c].op = "cachedStructMeta" /\ lookups[c].step = "returned"
    /\ lookups' = [lookups EXCEPT ![c] = Idle]
    /\ UNCHANGED <<structCache, codecVars, callVars>>

InitCache == NoRun /\ NoCalls /\ NoLookups

NextCache == LookupCall \/ LookupLoad \/ LookupBuild \/ LookupStore \/ LookupReturned

SpecCache == InitCache /\ [][NextCache]_vars

(***************************************************************************)
(* List items whose first field is "key:" with the nested object below it, *)
(* with and without sibling fields, and the same items with a primitive     *)
(* first field; value is the value the document denotes.                   *)
(***************************************************************************)
Y1 == Object(<<F("y", SmallInt(1))>>)

FirstFieldCases ==
  { [nested |-> TRUE, siblings |-> 0,
     text |-> Text("[1]:\n  - b:\n      y: 1"),
     value |-> List(<<Object(<<F("b", Y1)>>)>>)],
    [nested |-> TRUE, siblings |-> 1,
     text |-> Text("[1]:\n  - b:\n      y: 1\n    a: 2"),
     value |-> List(<<Object(<<F("b", Y1), F("a", SmallInt(2))>>)>>)],
    [nested |-> TRUE, siblings |-> 2,
     text |-> Text("[1]:\n  - b:\n      y: 1\n      z: x\n    a: 2\n    c[2]: 1,2"),
     value |-> List(<<Object(<<F("b", Object(<<F("y", SmallInt(1)), F("z", Str(Text("x")))>>)),
                               F("a", SmallInt(2)),
                               F("c", List(<<SmallInt(1), SmallInt(2)>>))>>)>>)],
    [nested |-> TRUE, siblings |-> 1,
     text |-> Text("[2]:\n  - b:\n      y: 1\n    a: 2\n  - b:\n      y: 1\n    a: 3"),
     value |-> List(<<Object(<<F("b", Y1), F("a", SmallInt(2))>>),
                      Object(<<F("b", Y1), F("a", SmallInt(3))>>)>>)],
    [nested |-> TRUE, siblings |-> 1,
     text |-> Text("[1]:\n  - b:\n    a: 2"),
     value |-> List(<<Object(<<F("b", Object(<<>>)), F("a", SmallInt(2))>>)>>)],
    [nested |-> TRUE, siblings |-> 1,
     text |-> Text("o:\n  k[1]:\n    - b:\n        y: 1\n      a: 2"),
     value |-> Object(<<F("o", Object(<<F("k",
                 List(<<Object(<<F("b", Y1), F("a", SmallInt(2))>>)>>))>>))>>)],
    [nested |-> TRUE, siblings |-> 1,
     text |-> Text("[1]:\n  - b:\n      y: 1\n    a:\n      y: 1"),
     value |-> List(<<Object(<<F("b", Y1), F("a", Y1)>>)>>)],
    [nested |-> FALSE, siblings |-> 0,
     text |-> Text("[1]:\n  - b: 0"),
     value |-> List(<<Object(<<F("b", SmallInt(0))>>)>>)],
    [nested |-> FALSE, siblings |-> 1,
     text |-> Text("[1]:\n  - b: 0\n    a: 2"),
     value |-> List(<<Object(<<F("b", SmallInt(0)), F("a", SmallInt(2))>>)>>)],
    [nested |-> FALSE, siblings |-> 2,
     text |-> Text("[1]:\n  - b: 0\n    a: 2\n    c[2]: 1,2"),
     value |-> List(<<Object(<<F("b", SmallInt(0)), F("a", SmallInt(2)),
                               F("c", List(<<SmallInt(1), SmallInt(2)>>))>>)>>)],
    [nested |-> FALSE, siblings |-> 1,
     text |-> Text("[2]:\n  - b: 0\n    a: 2\n  - b: 0\n    a: 3"),
     value |-> List(<<Object(<<F("b", SmallInt(0)), F("a", SmallInt(2))>>),
                      Object(<<F("b", SmallInt(0)), F("a", SmallInt(3))>>)>>)],
    [nested |-> FALSE, siblings |-> 1,
     text |-> Text("o:\n  k[1]:\n    - b: 0\n      a: 2"),
     value |-> Object(<<F("o", Object(<<F("k",
                 List(<<Object(<<F("b", SmallInt(0)), F("a", SmallInt(2))>>)>>))>>))>>)],
    [nested |-> FALSE, siblings |-> 1,
     text |-> Text("[1]:\n  - b: 0\n    a:\n      y: 1"),
     value |-> List(<<Object(<<F("b", SmallInt(0)), F("a", Y1)>>)>>)] }

InitFirstFields ==
  \E c \in FirstFieldCases : \E cfg \in {StrictFor(defaultEncoderOptions), Lenient} :
    StartText(c.text, cfg)

(***************************************************************************)
(* Headers with every kind of bracket segment, at the root, as a field and *)
(* as a list item, and headers without the closing bracket.                *)
(***************************************************************************)
BracketSegments ==
  { "2", "#2", "2|", "#2\t", "0", "12", "#10|",
    "|2", "2|3", "1||", "2|\t", "#|2", "\t",
    "", "#", "|", "x", "2,", "2 ", "-1", "2#", "##2", "2x|", "#|" }

HeaderPlaces == {"root", "field", "item"}

BracketDocument(seg, place) ==
  CASE place = "root"  -> Text("[") \o seg \o Text("]: a|b")
    [] place = "field" -> Text("k[") \o seg \o Text("]: a|b\nx: 1")
    [] place = "item"  -> Text("[1]:\n  - [") \o seg \o Text("]: a|b")

\* The line of the header in the document.
BracketLine(place) == IF place = "item" THEN 2 ELSE 1

BracketCases ==
  {[seg |-> Text(seg), place |-> place, text |-> BracketDocument(Text(seg), place)] :
     seg \in BracketSegments, place \in HeaderPlaces}

\* Headers whose bracket is not closed.
UnclosedCases ==
  {[place |-> "root", text |-> Text("[2: a|b")],
   [place |-> "field", text |-> Text("k[2: a|b\nx: 1")],
   [place |-> "field", text |-> Text("k[#2|{a|b}: 1\nx: 1")],
   [place |-> "item", text |-> Text("[1]:\n  - [2|: a|b")]}

InitBrackets ==
  \E c \in BracketCases \cup UnclosedCases : StartText(c.text, Lenient)

(***************************************************************************)
(* Documents with lines after the root value: after a root array of every  *)
(* layout, after a root object, blank lines and lines that are not blank.  *)
(***************************************************************************)
TrailingDocuments ==
  { "[1]: a\nb: 2", "[1]: a\n[1]: b", "[1]: a\nrest", "[1]: a\n\n", "[1]: a\n  \nb: 2",
    "[2]{x}:\n  1\n  2\nk: v", "[2]{x}:\n  1\n  2\n  k: v", "[2]{x}:\n  1\n  2\n\n",
    "[1]:\n  - a\nrest", "[1]:\n  - a\n  rest", "[1]:\n  - a: 1\n    b: 2\nc: 3", "[1]:\n  - a\n\n",
    "[0]:\nb: 2", "a: 1\n\n",
    "[1]{x}:\n  1\n\n  2", "[1]:\n  - a\n\n  - b", "k[1]{x}:\n  1\n\n  2\nz: 1", "a: 1\nb: 2\n\n\n", "\n[1]: a\n\nb: 2", "x\n\n" }

InitTrailing ==
  \E str \in TrailingDocuments : \E cfg \in {StrictFor(defaultEncoderOptions), Lenient} :
    StartText(Text(str), cfg)

(***************************************************************************)
(* Documents whose array header declares a very large length.              *)
(***************************************************************************)
HugeLengths ==
  { "17592186044416", "17592186044417", "9223372036854775807", "9223372036854775808",
    "99999999999999999999", "00000000000000000002" }

HugeLengthDocuments ==
  UNION {{ "[" \o n \o "]:", "[" \o n \o "]: a", "[" \o n \o "]:\n  - a", "[" \o n \o "]{x}:\n  1",
           "k[" \o n \o "]:\n  - a\nz: 1", "[1]:\n  - [" \o n \o "]:\n    - a",
           "[1]:\n  - a: 1\n    k[" \o n \o "]{x}:\n      1" } : n \in HugeLengths}

InitHuge ==
  \E str \in HugeLengthDocuments : \E cfg \in {StrictFor(defaultEncoderOptions), Lenient} :
    StartText(Text(str), cfg)

Init ==
  /\ NoCalls /\ NoLookups
  /\ \/ InitTabular \/ InitShapes \/ InitNumbers \/ InitDocuments \/ InitControl
     \/ InitDelimited \/ InitLengths \/ InitBlanks \/ InitWidths \/ InitIndents
     \/ InitRoots \/ InitZeros \/ InitHeaders \/ InitEmpty \/ InitFirstFields
     \/ InitBrackets \/ InitTrailing \/ InitHuge
Spec == Init /\ [][Next]_vars

(***************************************************************************)
(* Properties.                                                             *)
(*                                                                         *)
(* Values are compared as the data model compares them: Canon(val) is a    *)
(* decoded value with the entries of every map in ascending key order, so  *)
(* that two maps are equal when they hold the same keys and values.        *)
(* Denoted(val) is the value of the data model that the host value val     *)
(* stands for, in the form Decode returns it: a number is the float64 of   *)
(* its literal, an integer beyond 2^53 - 1 is the string of its digits, a  *)
(* non-finite float is null, an object is a map.                           *)
(***************************************************************************)
RECURSIVE Canon(_), InOrder(_), InDataModel(_), Orderable(_)

Canon(val) ==
  CASE val.kind = "map" ->
         MapOf(SortFields([i \in 1..Len(val.entries) |->
                             Field(val.entries[i].Key, Canon(val.entries[i].Value))]))
    [] val.kind = "slice" -> SliceOf([i \in 1..Len(val.items) |-> Canon(val.items[i])])
    [] OTHER -> val

IsSafe(i) == LimbsCmp(i.limbs, maxSafeInteger.limbs) <= 0

\* The value a host value stands for, every object with its fields in the
\* order the host value lists them: the fields of an ordered object in
\* their order, the entries of a map in ascending key order.
InOrder(val) ==
  CASE val.kind \in {"nil", "bool", "string"} -> val
    [] val.kind = "float64" ->
         IF val.f.class # "finite" THEN Nil
         ELSE IF val.f.d = <<>> THEN Float64(Finite(FALSE, <<>>, 0))
         ELSE val
    [] val.kind \in {"int", "uint", "bigInt"} ->
         IF IsSafe(val.i) THEN Float64(Float64OfInt(val.i)) ELSE Str(FormatInt(val.i))
    [] val.kind = "Object" ->
         MapOf([i \in 1..Len(val.Fields) |->
                  Field(val.Fields[i].Key, InOrder(val.Fields[i].Value))])
    [] val.kind = "map" ->
         MapOf(SortFields([i \in 1..Len(val.entries) |->
                             Field(val.entries[i].Key, InOrder(val.entries[i].Value))]))
    [] val.kind = "slice" -> SliceOf([i \in 1..Len(val.items) |-> InOrder(val.items[i])])

Denoted(val) == Canon(InOrder(val))

\* The values of the data model: null, booleans, finite numbers, integers,
\* strings without forbidden control characters, ordered objects with unique
\* keys, sequences.
InDataModel(val) ==
  CASE val.kind \in {"nil", "bool", "int", "uint", "bigInt"} -> TRUE
    [] val.kind = "string" -> ValidateCharacters(val.s) = "nil"
    [] val.kind = "float64" -> val.f.class = "finite"
    [] val.kind = "Object" ->
         /\ \A i, j \in 1..Len(val.Fields) : val.Fields[i].Key = val.Fields[j].Key => i = j
         /\ \A i \in 1..Len(val.Fields) :
              ValidateCharacters(val.Fields[i].Key) = "nil" /\ InDataModel(val.Fields[i].Value)
    [] val.kind = "slice" -> \A i \in 1..Len(val.items) : InDataModel(val.items[i])
    [] OTHER -> FALSE

\* The values of the data model, and maps with string keys among them.
Orderable(val) ==
  CASE val.kind = "map" ->
         \A i \in 1..Len(val.entries) :
            ValidateCharacters(val.entries[i].Key) = "nil" /\ Orderable(val.entries[i].Value)
    [] val.kind = "Object" ->
         /\ \A i, j \in 1..Len(val.Fields) : val.Fields[i].Key = val.Fields[j].Key => i = j
         /\ \A i \in 1..Len(val.Fields) :
              ValidateCharacters(val.Fields[i].Key) = "nil" /\ Orderable(val.Fields[i].Value)
    [] val.kind = "slice" -> \A i \in 1..Len(val.items) : Orderable(val.items[i])
    [] OTHER -> InDataModel(val)

\* The run started from a host value and Marshal has returned.
Marshalled == doc.err # "none"
\* Decode has returned from the first document, from the re-encoded one.
Decoded == decoded.err # "none"
Redecoded == redecoded.err # "none"

\* C1: for every value v of the data model and every encoder setting,
\* Decode(Marshal(v)) in strict mode with the same indent width succeeds and
\* is equal to v, objects compared by key and value, integers beyond
\* 2^53 - 1 read back as the string of their digits.
C1_DecodeOfEncode ==
  (Marshalled /\ InDataModel(v)) =>
     /\ doc.err = "nil"
     /\ Decoded => (decoded.err = "nil" /\ Canon(decoded.val) = Denoted(v))

\* C2: for every text T that Decode accepts, Marshal(Decode(T)) is accepted
\* by Decode and decodes to a value equal to Decode(T).
C2_EncodeOfDecodeIsAccepted ==
  (decoded.err = "nil" /\ redoc.err # "none") =>
     /\ redoc.err = "nil"
     /\ Redecoded => (redecoded.err = "nil" /\ Canon(redecoded.val) = Canon(decoded.val))

(***************************************************************************)
(* The layout of a root array, read off the document: the header is the    *)
(* first line, the elements are the lines one level below it.              *)
(***************************************************************************)
DocLines(t) == Split(t, "\n")
RootHeader(t) == tryParseHeader(DocLines(t)[1])

LeadingSpaces(line) ==
  LET other == {i \in 1..Len(line) : line[i] # " "}
  IN  IF other = {} THEN Len(line) ELSE Min(other) - 1

\* A header with a field segment.
TabularLayout(t) == RootHeader(t).ok /\ RootHeader(t).header.fields # <<>>

\* A header without field segment and without inline values, and below it
\* as many elements as the header says, each on a line that begins with "-".
ObjectListLayout(cfg, t) ==
  LET lines == DocLines(t)
      h == RootHeader(t)
      elems == {i \in 2..Len(lines) : LeadingSpaces(lines[i]) = cfg.indentSize}
      item(i) == SliceFrom(lines[i], cfg.indentSize)
  IN  /\ h.ok
      /\ h.header.fields = <<>>
      /\ h.header.inlineValues = <<>>
      /\ h.header.length = Cardinality(elems)
      /\ \A i \in elems : item(i) = <<"-">> \/ HasPrefix(item(i), <<"-", " ">>)

\* C4: an array element that is an object with at least one field round-trips
\* whatever the kind of its first field: Decode accepts the object-list
\* rendering of the array and returns, at the element's position, an object
\* with the same keys and values.
C4_ObjectElementRoundTrips ==
  (v.kind = "slice" /\ InDataModel(v) /\ doc.err = "nil" /\ Decoded
     /\ ObjectListLayout(encCfg, doc.val)) =>
     /\ decoded.err = "nil"
     /\ decoded.val.kind = "slice"
     /\ Len(decoded.val.items) = Len(v.items)
     /\ \A i \in 1..Len(v.items) :
          (v.items[i].kind = "Object" /\ ~IsEmpty(v.items[i])) =>
             Canon(decoded.val.items[i]) = Denoted(v.items[i])

\* C5: an empty object that is an element of an array is read back from the
\* encoder's line for it as an empty object at the same position.
C5_EmptyObjectElementRoundTrips ==
  (v.kind = "slice" /\ InDataModel(v) /\ doc.err = "nil" /\ decoded.err = "nil") =>
     /\ decoded.val.kind = "slice"
     /\ Len(decoded.val.items) = Len(v.items)
     /\ \A i \in 1..Len(v.items) :
          (v.items[i].kind = "Object" /\ IsEmpty(v.items[i])) =>
             decoded.val.items[i] = MapOf(<<>>)

(***************************************************************************)
(* The order of fields.  Decode puts the fields of an object into its map  *)
(* as it reads them, so the entries of a decoded map are in the order in   *)
(* which the document lists the fields (a tabular row: the order of the    *)
(* header).  KeysOf is that order.                                         *)
(***************************************************************************)
RECURSIVE Ascending(_), HeaderOrder(_)

KeysOf(m) == [i \in 1..Len(m.entries) |-> m.entries[i].Key]

\* Every object lists its fields in ascending key order.
Ascending(val) ==
  CASE val.kind = "map" ->
         /\ \A i \in 1..(Len(val.entries) - 1) :
              StringLess(val.entries[i].Key, val.entries[i + 1].Key)
         /\ \A i \in 1..Len(val.entries) : Ascending(val.entries[i].Value)
    [] val.kind = "slice" -> \A i \in 1..Len(val.items) : Ascending(val.items[i])
    [] OTHER -> TRUE

\* The elements are non-empty objects with primitive values, and every one
\* has exactly the keys of the first, in whatever order.
SameFieldSet(items) ==
  /\ Len(items) > 0
  /\ \A i \in 1..Len(items) :
       /\ items[i].kind = "map"
       /\ items[i].entries # <<>>
       /\ \A j \in 1..Len(items[i].entries) :
            items[i].entries[j].Value.kind \in {"nil", "bool", "string", "float64"}
       /\ Len(items[i].entries) = Len(items[1].entries)
       /\ {items[i].entries[j].Key : j \in 1..Len(items[i].entries)}
            = {items[1].entries[j].Key : j \in 1..Len(items[1].entries)}

\* The same, with the keys in the same order in every element.
SameFieldOrder(items) ==
  SameFieldSet(items) /\ \A i \in 1..Len(items) : KeysOf(items[i]) = KeysOf(items[1])

\* The fields of the object m in the order of the keys.
InKeyOrder(m, keys) ==
  MapOf([k \in 1..Len(keys) |->
           m.entries[CHOOSE j \in 1..Len(m.entries) : m.entries[j].Key = keys[k]]])

\* A value with the rows of every array of one field set in the order of
\* the array's first element.
HeaderOrder(val) ==
  CASE val.kind = "map" ->
         MapOf([i \in 1..Len(val.entries) |->
                  Field(val.entries[i].Key, HeaderOrder(val.entries[i].Value))])
    [] val.kind = "slice" ->
         LET items == [i \in 1..Len(val.items) |-> HeaderOrder(val.items[i])]
         IN  IF SameFieldSet(items)
             THEN SliceOf([i \in 1..Len(items) |-> InKeyOrder(items[i], KeysOf(items[1]))])
             ELSE SliceOf(items)
    [] OTHER -> val

\* Decode(Marshal(v)) has returned v, objects compared by key and value.
RoundTripped == Marshalled /\ decoded.err = "nil" /\ Canon(decoded.val) = Denoted(v)

\* C3 (as stated): for a document x in canonical form, here a document the
\* encoder has written, every object of Marshal(Decode(x)) lists its fields
\* in the same order as x does.
C3_ReencodingKeepsFieldOrder ==
  (Marshalled /\ decoded.err = "nil" /\ redecoded.err = "nil") => redecoded.val = decoded.val

\* C3 (amended): for every document x that Decode accepts, every object of
\* Marshal(Decode(x)) lists its fields in ascending key order, whatever
\* their order in x, wherever Decode reads the re-encoded document back.
C3_ReencodingSortsFields == redecoded.err = "nil" => Ascending(redecoded.val)

\* The document lists the fields of an object in another than ascending
\* order, and it has been decoded, encoded and decoded again.
C3_Witness == redecoded.err = "nil" /\ ~Ascending(decoded.val)

\* C6 (as stated): the encoder emits the fields of an ordered object in the
\* object's input order wherever the object occurs, a row of an array
\* included, and the fields of a map in ascending key order.
C6_FieldsInInputOrder == (Orderable(v) /\ RoundTripped) => decoded.val = InOrder(v)

\* C6 (amended): the encoder emits the fields of an ordered object in the
\* object's input order at the root, in a nested field and in an element of
\* an object list, and the fields of a map in ascending key order whatever
\* the order of the map's iteration; the rows of a tabular array are all
\* emitted in the field order of the array's first element.
C6_FieldsInInputOrHeaderOrder ==
  (Orderable(v) /\ RoundTripped) => decoded.val = HeaderOrder(InOrder(v))

\* An array was encoded in tabular layout, and one of its rows lists its
\* fields in another order than the first.
C6_Witness ==
  /\ Orderable(v) /\ RoundTripped
  /\ v.kind = "slice" /\ TabularLayout(doc.val) /\ ~SameFieldOrder(InOrder(v).items)

\* C7 (as stated): tabular layout is chosen only when all elements share the
\* same field set in the same order; an element that lists the keys of the
\* first in another order makes the array an object list.
C7_ReorderingDisablesTabular ==
  (v.kind = "slice" /\ Orderable(v) /\ doc.err = "nil" /\ TabularLayout(doc.val)) =>
     SameFieldOrder(InOrder(v).items)

\* C7 (amended): an array is rendered in tabular layout exactly when its
\* elements are non-empty objects with primitive values that all have the
\* key set of the first element, in whatever order each lists its keys.
C7_TabularIffSameFieldSet ==
  (v.kind = "slice" /\ Orderable(v) /\ doc.err = "nil") =>
     (TabularLayout(doc.val) <=> SameFieldSet(InOrder(v).items))

\* An array whose elements list the same keys in different orders was
\* encoded.
C7_Witness ==
  /\ v.kind = "slice" /\ Orderable(v) /\ doc.err = "nil"
  /\ SameFieldSet(InOrder(v).items) /\ ~SameFieldOrder(InOrder(v).items)

(***************************************************************************)
(* Arrays that differ in one field of one row.                             *)
(***************************************************************************)
WithoutField(obj, j) ==
  Object(SubSeq(obj.Fields, 1, j - 1) \o SubSeq(obj.Fields, j + 1, Len(obj.Fields)))

WithField(obj, j, field) ==
  Object(SubSeq(obj.Fields, 1, j - 1) \o <<field>> \o SubSeq(obj.Fields, j, Len(obj.Fields)))

WithItem(val, r, item) == SliceOf([val.items EXCEPT ![r] = item])

HasKey(obj, key) == \E j \in 1..Len(obj.Fields) : obj.Fields[j].Key = key

\* The arrays from which val results by adding one field to a single row
\* (val with that field taken out again), and by removing one field from a
\* single row (val with a field put back, at any place of the row).
Before(val) ==
  UNION {
    {WithItem(val, r, WithoutField(val.items[r], j)) : j \in 1..Len(val.items[r].Fields)}
    \cup
    {WithItem(val, r, WithField(val.items[r], j, Field(RowKeys[k], RowValue(r, k)))) :
       j \in 1..(Len(val.items[r].Fields) + 1),
       k \in {n \in 1..Len(RowKeys) : ~HasKey(val.items[r], RowKeys[n])}}
    : r \in 1..Len(val.items)}

\* The encoder renders the array in tabular layout.
RendersTabular(cfg, val) ==
  LET r == Marshal(cfg, val) IN IsOk(r) /\ TabularLayout(r.val)

\* Every element is on a line prefixed with "- ".
DashPrefixed(cfg, t) ==
  \A i \in 2..Len(DocLines(t)) :
     LeadingSpaces(DocLines(t)[i]) = cfg.indentSize =>
        HasPrefix(SliceFrom(DocLines(t)[i], cfg.indentSize), <<"-", " ">>)

ArrayOfObjects(val) ==
  val.kind = "slice" /\ \A i \in 1..Len(val.items) : val.items[i].kind = "Object"

\* C8: starting from an array of two or more objects that the encoder renders
\* in tabular layout, adding one field to a single row, or removing one field
\* from a single row, makes the encoder render the array in object-list
\* layout: a header without field segment, every element prefixed with "- ".
C8_OneFieldDisablesTabular ==
  (ArrayOfObjects(v) /\ Len(v.items) >= 2 /\ pc = "document") =>
     \/ ObjectListLayout(encCfg, doc.val) /\ DashPrefixed(encCfg, doc.val)
     \/ \A base \in Before(v) : ~RendersTabular(encCfg, base)

\* An array that results from a tabular one by adding a field to one row,
\* and one that results by removing a field from one row, was encoded.
C8_Witness ==
  /\ ArrayOfObjects(v) /\ Len(v.items) >= 2 /\ pc = "document"
  /\ \E base \in Before(v) :
       /\ RendersTabular(encCfg, base)
       /\ \E r \in 1..Len(v.items) : Len(base.items[r].Fields) < Len(v.items[r].Fields)

C8_WitnessRemoved ==
  /\ ArrayOfObjects(v) /\ Len(v.items) >= 2 /\ pc = "document"
  /\ \E base \in Before(v) :
       /\ RendersTabular(encCfg, base)
       /\ \E r \in 1..Len(v.items) : Len(base.items[r].Fields) > Len(v.items[r].Fields)

(***************************************************************************)
(* Numbers.  A number n is encoded at the root, as the field "n" of an     *)
(* object or as the element of an array (Wrap); WrapText is the document   *)
(* with the token of n, WrapDecoded the decoded value with the value of n. *)
(***************************************************************************)
Ways == {"root", "field", "item"}

WrapText(how, token) ==
  CASE how = "field" -> Text("n: ") \o token
    [] how = "item" -> Text("[1]: ") \o token
    [] OTHER -> token

WrapDecoded(how, value) ==
  CASE how = "field" -> MapOf(<<F("n", value)>>)
    [] how = "item" -> SliceOf(<<value>>)
    [] OTHER -> value

Quoted(digits) == <<"\"">> \o digits \o <<"\"">>

\* C9: a signed, unsigned or arbitrary-precision integer n is emitted as an
\* unquoted base-10 number literal if and only if |n| <= 9007199254740991,
\* and otherwise as a quoted decimal string, which decodes back as a string
\* with the same digits.
C9_SafeIntegerThreshold ==
  \A how \in Ways : \A n \in HostInts :
     (Marshalled /\ v = Wrap(how, n)) =>
        /\ doc.err = "nil"
        /\ doc.val = WrapText(how, IF IsSafe(n.i) THEN FormatInt(n.i) ELSE Quoted(FormatInt(n.i)))
        /\ Decoded =>
             /\ decoded.err = "nil"
             /\ decoded.val = WrapDecoded(how, IF IsSafe(n.i) THEN Float64(Float64OfInt(n.i))
                                                ELSE Str(FormatInt(n.i)))

\* An integer of magnitude 2^53, the first beyond the threshold, of a type
\* that holds it in 64 bits, was encoded and decoded.
C9_Witness ==
  \E how \in Ways : \E n \in HostInts :
     /\ v = Wrap(how, n) /\ decoded.err = "nil"
     /\ n.i.limbs = IntNear(FALSE, 1).limbs

\* The text of a json.Number parses as a finite double whose shortest
\* decimal form is the text itself.
RoundTripsDigits(s) ==
  LET r == ParseFloat(s) IN IsOk(r) /\ r.val.class = "finite" /\ FormatFloat(r.val) = s

\* C10: a json.Number becomes a number literal only if it parses as a finite
\* double that round-trips its original digits; otherwise it is kept as a
\* string with the original digits.
C10_NumberStringKeepsDigits ==
  \A how \in Ways : \A n \in JsonNumbers :
     (v = Wrap(how, n) /\ decoded.err = "nil") =>
        decoded.val = WrapDecoded(how, IF RoundTripsDigits(n.s)
                                       THEN InOrder(Float64(ParseFloat(n.s).val))
                                       ELSE Str(n.s))

(***************************************************************************)
(* Errors of the encoder.                                                  *)
(***************************************************************************)
RECURSIVE HasControl(_)

\* s holds a character below U+0020 other than HTAB, LF, CR.
IsControlString(s) == \E i \in 1..Len(s) : Rune(s[i]) < 32 /\ s[i] \notin {"\t", "\n", "\r"}

\* val holds such a character in a string value or in a key, at any depth.
HasControl(val) ==
  CASE val.kind = "string" -> IsControlString(val.s)
    [] val.kind = "Object" ->
         \E i \in 1..Len(val.Fields) :
            IsControlString(val.Fields[i].Key) \/ HasControl(val.Fields[i].Value)
    [] val.kind = "map" ->
         \E i \in 1..Len(val.entries) :
            IsControlString(val.entries[i].Key) \/ HasControl(val.entries[i].Value)
    [] val.kind = "slice" -> \E i \in 1..Len(val.items) : HasControl(val.items[i])
    [] OTHER -> FALSE

\* C11: whenever the value holds a control character below U+0020 other
\* than HTAB, LF, CR in a string value or in a key, in any place and any
\* array layout, Marshal returns an error and no document, and nothing is
\* decoded.
C11_ControlCharacterIsAnError ==
  (Marshalled /\ HasControl(v)) =>
     /\ doc.err # "nil"
     /\ doc.val = <<>>
     /\ pc = "failed"
     /\ text = <<>> /\ decoded = NoValue

\* Marshal has failed on a control character in a cell of the second row of
\* an array of objects with the same primitive fields.
C11_Witness ==
  /\ Marshalled /\ doc.err = "toon: unsupported control character in string"
  /\ v.kind = "slice" /\ Len(v.items) = 2
  /\ \A i \in 1..2 : v.items[i].kind = "Object" /\ Len(v.items[i].Fields) = 2
  /\ ~HasControl(v.items[1]) /\ HasControl(v.items[2])

(***************************************************************************)
(* Delimiters inside strings.                                              *)
(***************************************************************************)
RECURSIVE HoldsDelimited(_, _)

\* val holds, in a value slot of an array (an item of the array, or a field
\* value of an object that is an item), a string with the character d.
HoldsDelimited(val, d) ==
  CASE val.kind = "slice" ->
         \E i \in 1..Len(val.items) :
            \/ val.items[i].kind = "string" /\ ContainsRune(val.items[i].s, d)
            \/ /\ val.items[i].kind = "Object"
               /\ \E j \in 1..Len(val.items[i].Fields) :
                     /\ val.items[i].Fields[j].Value.kind = "string"
                     /\ ContainsRune(val.items[i].Fields[j].Value.s, d)
            \/ HoldsDelimited(val.items[i], d)
    [] val.kind = "Object" ->
         \E i \in 1..Len(val.Fields) : HoldsDelimited(val.Fields[i].Value, d)
    [] OTHER -> FALSE

\* C12: a value with a string that holds the active array delimiter in a
\* value slot of an array (inline item, tabular cell, list item, first field
\* of an object-list element) is written without error, and Decode gives
\* the value back, every string verbatim in its place, for every choice of
\* array delimiter and document delimiter.
C12_DelimitedStringRoundTrips ==
  (InDataModel(v) /\ HoldsDelimited(v, DelimiterRune(encCfg.arrayDelimiter)) /\ Marshalled) =>
     /\ doc.err = "nil"
     /\ Decoded => (decoded.err = "nil" /\ decoded.val = InOrder(v))

\* A string with a pipe in a tabular cell, written with the pipe as array
\* delimiter and the tab as document delimiter, has been read back.
C12_Witness ==
  /\ InDataModel(v) /\ HoldsDelimited(v, "|")
  /\ encCfg.arrayDelimiter = DelimiterPipe /\ encCfg.documentDelimiter = DelimiterTab
  /\ decoded.err = "nil"
  /\ v.kind = "slice" /\ TabularLayout(doc.val)

(***************************************************************************)
(* Declared and observed lengths.                                          *)
(***************************************************************************)
LengthErrors ==
  { "inline array length mismatch; expected %d, got %d",
    "tabular length mismatch; expected %d rows",
    "too many tabular rows (expected %d)",
    "list length mismatch; expected %d items" }

C14_BlankLineInsideArrayIsAnError ==
  (decCfg.strict /\ Decoded) =>
     \A c \in BlankCases :
        (text = c.text /\ c.text # c.base) =>
           IF c.inside THEN decoded.err # "nil"
           ELSE /\ decoded.err = "nil"
                /\ decoded.val = Decode(decCfg, c.base).val

\* A blank line between two items of a list has been rejected.
C14_Witness ==
  /\ decCfg.strict
  /\ text = WithBlankLine(<<"[2]:", "  - 1", "  - 2">>, 2, <<>>)
  /\ decoded.err = "blank line inside list array"

(***************************************************************************)
(* Lenient mode.                                                           *)
(***************************************************************************)
StrictErrors ==
  LengthErrors \cup
  { "tabular row width mismatch",
    "blank line inside tabular array", "blank line inside list array",
    "blank line inside object list item",
    "tabs are not allowed in indentation (strict mode)",
    "indentation must be a multiple of %d spaces" }

LeadingWhitespace(line) ==
  LET other == {i \in 1..Len(line) : line[i] \notin {" ", "\t"}}
      stop == IF other = {} THEN Len(line) ELSE Min(other) - 1
  IN  [length |-> stop, blank |-> other = {}, tab |-> \E i \in 1..stop : line[i] = "\t"]

\* The numbers of the non-blank lines of t whose leading whitespace holds a
\* tab or is not a multiple of w spaces.
BadlyIndented(t, w) ==
  {i \in 1..Len(DocLines(t)) :
     LET lw == LeadingWhitespace(DocLines(t)[i])
     IN  ~lw.blank /\ (lw.tab \/ lw.length % w # 0)}

IndentErrors ==
  { "tabs are not allowed in indentation (strict mode)",
    "indentation must be a multiple of %d spaces" }

\* C16: in strict mode, a document with a non-blank line whose leading
\* whitespace holds a tab, or is a count of spaces that is not a multiple of
\* the indent width, is rejected with an error that carries the number of
\* the first such line, and no value is returned; a line with k leading
\* spaces, k a multiple of the width, is at level k divided by the width.
C16_StrictIndentation ==
  (decCfg.strict /\ Decoded /\ text # <<>>) =>
     /\ BadlyIndented(text, decCfg.indentSize) # {} =>
           /\ decoded.err \in IndentErrors
           /\ decoded.line = Min(BadlyIndented(text, decCfg.indentSize))
           /\ decoded.val = Nil
     /\ \A c \in IndentCases :
           (text = c.text /\ decCfg.indentSize = c.w /\ BadlyIndented(text, c.w) = {}) =>
              LET level == Len(c.ws) \div c.w IN
              IF level > 2 THEN decoded.err = "unexpected indentation" /\ decoded.line = 3
              ELSE decoded.err = "nil" /\ Canon(decoded.val) = Denoted(AtLevel(level))

\* Three leading spaces on the third line have been rejected with an indent
\* width of 2, the error carrying the line number 3.
C16_Witness ==
  /\ decCfg.strict /\ decCfg.indentSize = 2
  /\ text = IndentDocument(<<" ", " ", " ">>, 2)
  /\ decoded.err = "indentation must be a multiple of %d spaces" /\ decoded.line = 3

(***************************************************************************)
(* The root form.                                                          *)
(***************************************************************************)
\* The lines of the text as the parser holds them, and the position (from
\* 0) of the first non-blank one.
Lines == newParser(text, decCfg)
FirstNonBlank == Min({i \in 0..(Len(Lines.lines) - 1) : ~At(Lines.lines, i).blank})

\* The form of the root: "empty" without a non-blank line; "primitive" when
\* exactly one non-blank line remains and it has no valid header and no
\* colon outside quotes; "sequence" when the first non-blank line is a
\* header with empty key at indent 0; "object" otherwise.
RootForm ==
  LET nonBlank == {i \in 0..(Len(Lines.lines) - 1) : ~At(Lines.lines, i).blank}
      first == At(Lines.lines, FirstNonBlank)
      h == tryParseHeader(first.content)
  IN  IF nonBlank = {} THEN "empty"
      ELSE IF /\ Cardinality(nonBlank) = 1
              /\ ~(h.err = "nil" /\ h.ok)
              /\ indexOutsideQuotes(first.content, ":") = -1
      THEN "primitive"
      ELSE IF h.err = "nil" /\ h.ok /\ h.header.key = <<>> /\ first.indent = 0 THEN "sequence"
      ELSE "object"

\* Decode has returned what the parse `r' returns: the same value, or an
\* error where r is an error.
Returns(r) ==
  IF r.err = "nil" THEN decoded.err = "nil" /\ decoded.val = r.val ELSE decoded.err # "nil"

\* C17: after the leading blank lines, Decode returns the decoded
\* primitive of the line when the root form is "primitive", the sequence
\* parsed from the header when it is "sequence", and the object parsed at
\* indent 0 otherwise.
C17_RootFormDispatch ==
  (Decoded /\ Lines.err = "nil" /\ RootForm # "empty") =>
     LET first == At(Lines.lines, FirstNonBlank) IN
     CASE RootForm = "primitive" ->
            /\ Returns(decodePrimitiveToken(TrimSpace(first.content)))
            /\ decoded.err = "nil" => decoded.val.kind \in {"nil", "bool", "string", "float64"}
       [] RootForm = "sequence" ->
            /\ Returns(parseArray(Lines, FirstNonBlank + 1, tryParseHeader(first.content).header, 0))
            /\ decoded.err = "nil" => decoded.val.kind = "slice"
       [] OTHER ->
            /\ Returns(parseObject(Lines, FirstNonBlank, 0))
            /\ decoded.err = "nil" => decoded.val.kind = "map"

\* A single line without header and colon, after blank lines, has been
\* decoded as a primitive.
C17_Witness ==
  /\ text = Text("\n\nhello\n\n")
  /\ decoded.err = "nil" /\ decoded.val = Str(Text("hello"))
  /\ RootForm = "primitive"

(***************************************************************************)
(* Leading zeros.                                                          *)
(***************************************************************************)
\* An optional "-", then "0" immediately followed by another digit.
ForbiddenLeadingZero(token) ==
  LET t == IF token # <<>> /\ token[1] = "-" THEN Tail(token) ELSE token
  IN  Len(t) >= 2 /\ t[1] = "0" /\ isDigit(t[2])

\* The tokens of a document: the runs of characters between spaces,
\* delimiters, colons, line ends and the brackets of headers.
DocTokens(t) ==
  LET sep == {" ", ",", "|", "\t", ":", "\n", "[", "]", "{", "}", "#"}
      starts == {i \in 1..Len(t) : t[i] \notin sep /\ (i = 1 \/ t[i - 1] \in sep)}
      end(i) == Min({j \in i..Len(t) : j = Len(t) \/ t[j + 1] \in sep})
  IN  {SubSeq(t, i, end(i)) : i \in starts}

\* C18: an unquoted token with a forbidden leading zero is decoded as the
\* string of its characters, wherever a value can stand; and no document
\* the encoder writes holds an unquoted token of that shape.
C18_LeadingZeroIsNotANumber ==
  /\ Decoded =>
        \A c \in ZeroCases :
           (text = c.text /\ ForbiddenLeadingZero(c.token)) =>
              decoded.err = "nil" /\ decoded.val = ZeroValue(Str(c.token), c.how)
  /\ doc.err = "nil" => \A token \in DocTokens(doc.val) : ~ForbiddenLeadingZero(token)

\* The token 007 in a tabular cell has been decoded as a string.
C18_Witness ==
  /\ text = ZeroDocument(Text("007"), "cell")
  /\ decoded.err = "nil" /\ decoded.val = ZeroValue(Str(Text("007")), "cell")

(***************************************************************************)
(* Array headers.                                                          *)
(***************************************************************************)
RECURSIVE CountArrays(_)

\* The number of arrays in a host value.
CountArrays(val) ==
  CASE val.kind = "slice" ->
         1 + Loop(LAMBDA n, i : n + CountArrays(val.items[i]), 1, Len(val.items), 0)
    [] val.kind = "Object" ->
         Loop(LAMBDA n, i : n + CountArrays(val.Fields[i].Value), 1, Len(val.Fields), 0)
    [] OTHER -> 0

\* A line without its indentation and without the "- " of a list item.
Content(line) ==
  LET c == SliceFrom(line, LeadingSpaces(line))
  IN  IF HasPrefix(c, <<"-", " ">>) THEN SliceFrom(c, 2) ELSE c

\* The text of a line up to and including its first colon outside quotes.
UpToColon(content) == Slice(content, 0, indexOutsideQuotes(content, ":") + 1)

\* The header of the claim's form for the parsed header h: key literal,
\* "[", "#" iff markers are enabled, the count, the delimiter character iff
\* it is not the comma, "]", the field names in braces iff there are any,
\* joined by the delimiter, and ":".
HeaderForm(h, cfg) ==
  LET d == DelimiterRune(cfg.arrayDelimiter) IN
  (IF h.key = <<>> THEN <<>> ELSE EncodeKey(h.key).val)
  \o <<"[">>
  \o (IF cfg.includeLengthMarks THEN <<"#">> ELSE <<>>)
  \o Itoa(h.length)
  \o (IF cfg.arrayDelimiter # DelimiterComma THEN <<d>> ELSE <<>>)
  \o <<"]">>
  \o (IF h.fields = <<>> THEN <<>>
      ELSE <<"{">> \o Join([i \in 1..Len(h.fields) |-> EncodeKey(h.fields[i]).val], <<d>>) \o <<"}">>)
  \o <<":">>

\* The lines of the document that are headers.
HeaderLines(t) ==
  {i \in 1..Len(DocLines(t)) :
     LET h == tryParseHeader(Content(DocLines(t)[i])) IN h.err = "nil" /\ h.ok}

OnlyBlankLines(t) == \A i \in 1..Len(t) : IsSpace(t[i])

\* C20: Marshal of an empty object at the root returns the document of zero
\* bytes, and Decode of the empty document, or of a document whose lines are
\* all blank, returns an empty object and no error.
C20_EmptyDocument ==
  /\ (Marshalled /\ v = Object(<<>>)) => (doc.err = "nil" /\ doc.val = <<>>)
  /\ (Decoded /\ OnlyBlankLines(text)) => (decoded.err = "nil" /\ decoded.val = MapOf(<<>>))

\* Strict Decode has returned from a document of blank lines, one of which
\* holds a tab.
C20_Witness ==
  /\ OnlyBlankLines(text) /\ ContainsRune(text, "\t") /\ Decoded /\ decCfg.strict

(***************************************************************************)
(* Concurrent callers.                                                     *)
(***************************************************************************)
\* The configuration that a list of options makes of the defaults.
Configured(opts, defaults) == Loop(LAMBDA o, i : ApplyOption(opts[i], o), 1, Len(opts), defaults)

\* What a returned call returns when it runs alone.
Alone(frame) ==
  IF frame.op = "Marshal"
  THEN Marshal(Configured(EncoderOf(frame).made, defaultEncoderOptions), frame.arg)
  ELSE Decode(Configured(decoders[frame.dec].made, defaultDecoderOptions), frame.arg)

CacheIsRight ==
  /\ \A t \in DOMAIN structCache : structCache[t] = buildStructMeta(t)
  /\ \A c \in Callers :
        (lookups[c].op = "cachedStructMeta" /\ lookups[c].step \in {"Store", "returned"}) =>
           lookups[c].meta = buildStructMeta(lookups[c].t)

\* C22: under every interleaving of cachedStructMeta calls, an entry once
\* stored for a type is never removed and never changed, and every entry and
\* every call's metadata is equal to what buildStructMeta computes for the
\* type, also when two callers miss for the same type and both store.
C22_CacheGrowsOnly ==
  /\ []CacheIsRight
  /\ [][\A t \in DOMAIN structCache :
          t \in DOMAIN structCache' /\ structCache'[t] = structCache[t]]_vars

\* Two callers have missed for the same type; the first has stored its
\* metadata and returned it, and the second is about to store too, while the
\* cache holds another type as well.
C22_Witness ==
  \E c, d \in Callers :
    /\ c # d
    /\ lookups[c].op = "cachedStructMeta" /\ lookups[c].step = "returned" /\ ~lookups[c].hit
    /\ lookups[d].op = "cachedStructMeta" /\ lookups[d].step = "Store"
    /\ lookups[c].t = "profile" /\ lookups[d].t = "profile"
    /\ DOMAIN structCache = {"profile", "pair"}

(***************************************************************************)
(* The cursor after an array.                                              *)
(***************************************************************************)
\* The headers of the parsed lines p.lines: [at, header, depth] for every
\* line, 0-based, whose content, or whose list item after the "-", is a
\* header, with the depths at which the parser is called for it: the indent
\* of the line for a field of an object and for a list item, one less for a
\* sibling field of a list item.
HeadersOf(p) ==
  UNION {
    LET line == At(p.lines, i)
        item == IF HasPrefix(line.content, <<"-">>) THEN TrimSpace(SliceFrom(line.content, 1))
                ELSE line.content
        h == tryParseHeader(item)
    IN  IF line.blank \/ h.err # "nil" \/ ~h.ok THEN {}
        ELSE {[at |-> i, header |-> h.header, depth |-> d] :
                d \in {line.indent, line.indent - 1} \cap Nat}
    : i \in 0..(Len(p.lines) - 1)}

\* Whether a line belongs to the body of the array of header h at depth d:
\* no line for inline values; for fields, a row at d+1 without a colon
\* outside quotes; for a list, an item at d+1 that begins with "-", and the
\* deeper lines of the items.
InBody(h, d, line) ==
  /\ ~line.blank
  /\ IF Len(h.inlineValues) > 0 THEN FALSE
     ELSE IF Len(h.fields) > 0
     THEN line.indent = d + 1 /\ indexOutsideQuotes(TrimSpace(line.content), ":") = -1
     ELSE \/ line.indent > d + 1
          \/ line.indent = d + 1 /\ HasPrefix(line.content, <<"-">>)

\* The cursor c after the array of header h, whose header is line `at':
\* within the lines, past the header, every line between the header and the
\* cursor blank or of the body, so deeper than d, and the line at the cursor,
\* if there is one, not of the body.
CursorAfterArray(p, at, h, d, c) ==
  /\ c > at /\ c <= Len(p.lines)
  /\ \A i \in (at + 1)..(c - 1) :
        At(p.lines, i).blank \/ (At(p.lines, i).indent > d /\ InBody(h, d, At(p.lines, i)))
  /\ c < Len(p.lines) => ~InBody(h, d, At(p.lines, c))

\* C23: for every header of the document and the depth d the array parser
\* is given for it, when parseArray returns a value the cursor has passed
\* no non-blank line of indent <= d, and it rests at the end of the lines
\* or on the first line after the header that is not of the array's body.
C23_CursorAfterArray ==
  (Decoded /\ redoc.err = "none" /\ Lines.err = "nil") =>
     \A c \in HeadersOf(Lines) :
        LET r == parseArray(Lines, c.at + 1, c.header, c.depth)
        IN  IsOk(r) => CursorAfterArray(Lines, c.at, c.header, c.depth, r.pos)

\* A tabular array, first field of a list item, has ended on a sibling
\* field of the item, which is as deep as its rows.
C23_Witness ==
  /\ Decoded /\ decoded.err = "nil" /\ redoc.err = "none"
  /\ \E c \in HeadersOf(Lines) :
        LET r == parseArray(Lines, c.at + 1, c.header, c.depth)
        IN  /\ IsOk(r) /\ Len(c.header.fields) > 0 /\ Len(r.val.items) > 0
            /\ r.pos < Len(Lines.lines)
            /\ At(Lines.lines, r.pos).indent = c.depth + 1

(***************************************************************************)
(* The first field of a list item.                                         *)
(***************************************************************************)
\* C24: a list item "- key:" whose first field has the nested object below
\* it at depth d+3 is read as one object element, the nested object under
\* the key and the sibling fields at d+2 in the same element, as the item
\* is read when its first field has a primitive value.
C24_NestedFirstField ==
  Decoded => \A c \in FirstFieldCases : text = c.text =>
     decoded.err = "nil" /\ Canon(decoded.val) = Denoted(c.value)

\* An item "- b:" with a nested object and a sibling field has been decoded.
C24_Witness ==
  /\ Decoded
  /\ \E c \in FirstFieldCases : text = c.text /\ c.nested /\ c.siblings > 0

(***************************************************************************)
(* The bracket segment of a header.                                        *)
(***************************************************************************)
\* The bracket segment is an optional "#", one or more digits, and at most
\* one delimiter character, HTAB or "|", as its last character.
WellFormedBracket(seg) ==
  LET body == IF HasPrefix(seg, <<"#">>) THEN SliceFrom(seg, 1) ELSE seg
      digits == IF body # <<>> /\ body[Len(body)] \in {"\t", "|"}
                THEN SubSeq(body, 1, Len(body) - 1) ELSE body
  IN  digits # <<>> /\ \A i \in 1..Len(digits) : isDigit(digits[i])

\* The delimiter a well-formed bracket segment declares.
BracketDelimiter(seg) ==
  IF seg[Len(seg)] = "|" THEN DelimiterPipe
  ELSE IF seg[Len(seg)] = "\t" THEN DelimiterTab ELSE DelimiterComma

\* The array "a|b" denotes under a delimiter.
BracketArray(d) ==
  IF d = DelimiterPipe THEN List(<<Str(Text("a")), Str(Text("b"))>>)
  ELSE List(<<Str(Text("a|b"))>>)

BracketValue(seg, place) ==
  CASE place = "root"  -> BracketArray(BracketDelimiter(seg))
    [] place = "field" -> Object(<<F("k", BracketArray(BracketDelimiter(seg))), F("x", SmallInt(1))>>)
    [] place = "item"  -> List(<<BracketArray(BracketDelimiter(seg))>>)

InvalidHeaderErrors ==
  { "missing closing bracket in array header", "missing array length",
    "invalid delimiter symbol %q", "missing digits in array length" }

\* C25: a header whose bracket segment is an optional "#", digits and at
\* most one final HTAB or "|" is accepted, with the delimiter it declares;
\* every other bracket segment, and a bracket that is not closed, makes
\* Decode fail with an invalid-header error that carries the header's line.
C25_BracketSegment ==
  Decoded =>
     /\ \A c \in BracketCases : text = c.text =>
           IF WellFormedBracket(c.seg)
           THEN decoded.err = "nil" /\ Canon(decoded.val) = Denoted(BracketValue(c.seg, c.place))
           ELSE /\ decoded.err \in InvalidHeaderErrors
                /\ decoded.line = BracketLine(c.place)
                /\ decoded.val = Nil
     /\ \A c \in UnclosedCases : text = c.text =>
           /\ decoded.err = "missing closing bracket in array header"
           /\ decoded.line = BracketLine(c.place)
           /\ decoded.val = Nil

\* A header with two delimiter characters in its bracket has been decoded.
C25_Witness ==
  /\ Decoded
  /\ \E c \in BracketCases : text = c.text /\ c.seg = Text("1||")

(***************************************************************************)
(* Lines after the root value.                                             *)
(***************************************************************************)
\* The numbers of the non-blank lines at or after the cursor Decode
\* returns with.
Unconsumed ==
  {At(Lines.lines, i).number : i \in {j \in decoded.pos..(Len(Lines.lines) - 1) : ~At(Lines.lines, j).blank}}

\* C26: when Decode returns a value, no non-blank line of the document is
\* left at or after the parser's cursor.
C26_EveryLineConsumed ==
  (Decoded /\ redoc.err = "none" /\ decoded.err = "nil") => Unconsumed = {}

\* Decode has returned a root array from a document that has a non-blank
\* line after the array.
C26_Witness ==
  /\ Decoded /\ redoc.err = "none" /\ decoded.err = "nil" /\ decoded.val.kind = "slice"
  /\ text = Text("[1]: a\nb: 2")

(***************************************************************************)
(* Strict and lenient decoding of one document.                            *)
(***************************************************************************)
\* Decode of the document of the run with the same indent width and
\* strict = FALSE.
LenientDecode == Decode([decCfg EXCEPT !.strict = FALSE], text)

\* C28: when Decode returns a value under strict = TRUE, Decode of the same
\* document under strict = FALSE and the same indent width returns the same
\* value.
C28_StrictOnlyAddsDiagnostics ==
  (Decoded /\ redoc.err = "none" /\ decCfg.strict /\ decoded.err = "nil") =>
     (LenientDecode.err = "nil" /\ LenientDecode.val = decoded.val)

\* A strict Decode has returned an object from a document with an array
\* header, a blank line after it and a line after the blank line.
C28_Witness ==
  /\ Decoded /\ redoc.err = "none" /\ decCfg.strict /\ decoded.err = "nil"
  /\ decoded.val.kind = "map"
  /\ \E h, i, j \in 0..(Len(Lines.lines) - 1) :
        /\ h < i /\ i < j
        /\ tryParseHeader(At(Lines.lines, h).content).ok
        /\ At(Lines.lines, i).blank
        /\ ~At(Lines.lines, j).blank

(***************************************************************************)
(* The encoder's output taken by itself: headers, bodies and tokens.       *)
(***************************************************************************)
\* The tokens of a line's content under the delimiter of the header h.
TokensOf(content, h) == SplitInlineValues(TrimSpace(content), DelimiterRune(h.delimiter))

\* n tokens, none of them empty.
Tokens(content, h, n) ==
  LET t == TokensOf(content, h)
  IN  IsOk(t) /\ Len(t.val) = n /\ \A k \in 1..n : t.val[k] # <<>>

\* A line that begins, after its indentation, with the dash of a list item.
Dashed(line) ==
  LET c == SliceFrom(line, LeadingSpaces(line)) IN c = <<"-">> \/ HasPrefix(c, <<"-", " ">>)

\* The list items below the header on line i: the dashed lines one level
\* below the header, up to the first line that is not deeper than the
\* header or is a field one level below it.
ItemsBelow(lines, i, w) ==
  LET n == LeadingSpaces(lines[i])
      stop == {k \in (i + 1)..Len(lines) :
                 \/ LeadingSpaces(lines[k]) <= n
                 \/ LeadingSpaces(lines[k]) = n + w /\ ~Dashed(lines[k])}
      end == IF stop = {} THEN Len(lines) + 1 ELSE Min(stop)
  IN  {j \in (i + 1)..(end - 1) : LeadingSpaces(lines[j]) = n + w}

\* The header on line i and its body agree: an inline list has as many
\* tokens as the header declares; a tabular header is followed by as many
\* rows as it declares, each of as many tokens as the header has fields, and
\* then by no further row; a list header is followed by as many items as it
\* declares.
BodyAgrees(lines, i, w) ==
  LET h == tryParseHeader(Content(lines[i])).header
      n == LeadingSpaces(lines[i])
  IN  IF h.inlineValues # <<>>
      THEN h.fields = <<>> /\ Tokens(h.inlineValues, h, h.length)
      ELSE IF h.fields # <<>>
      THEN /\ i + h.length <= Len(lines)
           /\ \A j \in (i + 1)..(i + h.length) :
                 /\ LeadingSpaces(lines[j]) = n + w
                 /\ Tokens(lines[j], h, Len(h.fields))
           /\ i + h.length < Len(lines) =>
                 LET after == lines[i + h.length + 1]
                 IN  \/ LeadingSpaces(after) <= n
                     \/ /\ LeadingSpaces(after) = n + w
                        /\ indexOutsideQuotes(TrimSpace(after), ":") # -1
      ELSE Cardinality(ItemsBelow(lines, i, w)) = h.length

\* The document t written under cfg is consistent with itself: every header
\* agrees with its body, no line ends with a space (so no primitive token
\* after "- " or ": " is empty), and strict decoding of it reports no length
\* or row width mismatch.
SelfConsistent(t, cfg) ==
  LET lines == DocLines(t) IN
  /\ \A i \in HeaderLines(t) : BodyAgrees(lines, i, cfg.indentSize)
  /\ \A i \in 1..Len(lines) : lines[i] # <<>> => lines[i][Len(lines[i])] # " "
  /\ Decode(StrictFor(cfg), t).err \notin (LengthErrors \cup {"tabular row width mismatch"})

DecodeWithDocumentDelimiter(d) ==
  Decode(WithDecoderDocumentDelimiter(d, decCfg), text)

Forward(r, from) == from <= r.pos /\ r.pos <= Len(Lines.lines)

\* C27: Decode ends on every document with a value or an error and never
\* with a run-time panic; the cursor it ends with is within 0..number of
\* lines; every parseArray is entered past its header line (so the line
\* before the cursor exists) and ends with its cursor at or after the one it
\* was entered with and within the lines, and so does every parseObject
\* entered at any line.
C27_DecodeTerminates ==
  (Decoded /\ redoc.err = "none") =>
     /\ decoded.err # MakeSlicePanic
     /\ Lines.err = "nil" =>
          /\ decoded.pos \in 0..Len(Lines.lines)
          /\ \A c \in HeadersOf(Lines) :
                /\ c.at + 1 >= 1
                /\ Forward(parseArray(Lines, c.at + 1, c.header, c.depth), c.at + 1)
          /\ \A i \in 0..Len(Lines.lines) : \A d \in 0..MaxIndent :
                Forward(parseObject(Lines, i, d), i)

\* Decode has been called with a document whose root header declares a
\* list of more elements than a slice can hold.
C27_Witness ==
  /\ Decoded /\ redoc.err = "none" /\ Lines.err = "nil"
  /\ text = Text("[17592186044417]:\n  - a")

====
